---- MODULE Spec2Model ----
(***************************************************************************)
(* PMX servo protocol driver (PMXArduinoLib): the frame codec, the         *)
(* register access layer (MemREAD / MemWRITE and the typed reads), the     *)
(* motion commands (MotorREAD / MotorWRITE) and the half-duplex transport  *)
(* of PmxHardSerial with its busy flag.                                     *)
(*                                                                         *)
(* Byte buffers are sequences of 0..255.  The source indexes buffers from  *)
(* 0; At(buf, k) reads C index k.                                          *)
(***************************************************************************)
EXTENDS Integers, Sequences, FiniteSets, TLC

(***************************************************************************)
(* Program constants (PmxBaseClass.h, namespace PMX).                      *)
(***************************************************************************)
ErrorByteData == 255
ErrorUint16Data == 32767
ErrorUint32Data == 2147483647

CmdMemREAD == 160
CmdMemWRITE == 161
CmdMotorREAD == 164
CmdMotorWRITE == 165
CmdLOAD == 162
CmdSAVE == 163
CmdSystemREAD == 187
CmdSystemWRITE == 188
CmdReBoot == 189
CmdFactoryReset == 190

PtrLength == 3
PtrCMD == 4
PtrStatus == 5
PtrData == 6

NoReturn == 0
OptPosition == 1
OptSpeed == 2
OptCurrent == 4
OptTorque == 8
OptPwm == 16
OptMotorTemp == 32
OptCpuTemp == 64
OptVoltage == 128

ComOK == 0
TimeOut == 65280
CrcError == 65024
FormatError == 64768
SendError == 64512
ReceiveError == 64256
MotorREADConvertError == 64000
ErrorMask == 65280

MinLenSend == 8
MinLenReceive == 8

TorqueOn == 1
Free == 2
Brake == 4
Hold == 8
TorqueSwitchError == 255

ControlModePosition == 1

DefaultHeader == 254

(***************************************************************************)
(* Bounds of the model.                                                    *)
(***************************************************************************)
\* number of distinct payload patterns the environment draws data from
NumSeeds == 2
\* number of writes the loopback device accepts after power-up
MaxWrites == 1

(***************************************************************************)
(* Arithmetic helpers.                                                     *)
(***************************************************************************)
Min(a, b) == IF a < b THEN a ELSE b

\* bitwise exclusive or of two naturals, bit by bit
RECURSIVE XorBits(_, _)
XorBits(a, b) ==
  IF a = 0 THEN b
  ELSE IF b = 0 THEN a
  ELSE ((a + b) % 2) + 2 * XorBits(a \div 2, b \div 2)

\* the same on 4-bit digits, tabulated
XorNibble == [a \in 0..15 |-> [b \in 0..15 |-> XorBits(a, b)]]

\* bitwise exclusive or of two 16-bit values
Xor(a, b) ==
  XorNibble[a % 16][b % 16]
  + 16 * XorNibble[(a \div 16) % 16][(b \div 16) % 16]
  + 256 * XorNibble[(a \div 256) % 16][(b \div 256) % 16]
  + 4096 * XorNibble[(a \div 4096) % 16][(b \div 4096) % 16]

\* bitwise and of two naturals
RECURSIVE BitAnd(_, _)
BitAnd(a, b) ==
  IF a = 0 \/ b = 0 THEN 0
  ELSE ((a % 2) * (b % 2)) + 2 * BitAnd(a \div 2, b \div 2)

\* (byte)x : conversion of an int to unsigned char
ToByte(x) == x % 256

\* C index k of a buffer
At(buf, k) == buf[k + 1]

\* buf with C index k set to v
SetAt(buf, k, v) == [buf EXCEPT ![k + 1] = v]

\* the first n bytes of a buffer
Take(buf, n) == SubSeq(buf, 1, n)

(***************************************************************************)
(* DataConvert.cpp : unions over little-endian bytes.                      *)
(***************************************************************************)
bytesToUint16(b) == b[1] + 256 * b[2]

bytesToInt16(b) ==
  LET u == b[1] + 256 * b[2] IN IF u >= 32768 THEN u - 65536 ELSE u

\* as bytesToInt32, reading only the low two bytes
bytesToInt32Narrowed(b) == bytesToInt16(b)

\* Int32Byte.int32 is an unsigned long returned as long (32 bits): the
\* four bytes read as a two's-complement value
bytesToInt32(b) ==
  LET lo == b[1] + 256 * b[2]
      hi == b[3] + 256 * b[4]
  IN (IF hi >= 32768 THEN hi - 65536 ELSE hi) * 65536 + lo

\* (short)x : narrowing conversion to a signed 16-bit value
ToShort(x) ==
  LET u == x % 65536 IN IF u >= 32768 THEN u - 65536 ELSE u

\* conversion of a signed value to unsigned short
ToUint16(x) == x % 65536

\* DataConv::int16ToBytes and DataConv::uint16ToBytes: the two bytes of the
\* union, low byte first
int16ToBytes(shortData) == <<shortData % 256, (shortData \div 256) % 256>>

uint16ToBytes(wordData) == <<wordData % 256, (wordData \div 256) % 256>>

\* a 32-bit unsigned value as its two 16-bit halves (the model's integers
\* are 32-bit signed); ToUint32 is the conversion of a long
U32(hi, lo) == [hi |-> hi, lo |-> lo]

ToUint32(x) == U32((x \div 65536) % 65536, x % 65536)

(***************************************************************************)
(* PmxCRC.h : CRC-16 (polynomial 0x1021, initial value 0) over the bytes   *)
(* that precede the checksum; the frame's own length byte says where the   *)
(* checksum sits.                                                          *)
(***************************************************************************)
\* one bit of the shift register: shift left, reduce by the polynomial
CrcShift(r) ==
  IF r >= 32768 THEN Xor((r * 2) % 65536, 4129) ELSE r * 2

\* the register after the eight bits of a byte placed in its high half
CrcTable ==
  [v \in 0..255 |->
     CrcShift(CrcShift(CrcShift(CrcShift(
       CrcShift(CrcShift(CrcShift(CrcShift(v * 256))))))))]

CrcByte(crc, b) ==
  Xor((crc * 256) % 65536, CrcTable[Xor(crc \div 256, b)])

RECURSIVE CrcRange(_, _, _, _)
CrcRange(buf, lo, hi, crc) ==
  IF crc < 0 \/ lo > hi THEN crc
  ELSE IF lo = hi THEN CrcByte(crc, buf[lo])
  ELSE LET mid == (lo + hi) \div 2
       IN CrcRange(buf, mid + 1, hi, CrcRange(buf, lo, mid, crc))

\* checksum of the first n bytes of buf
getCrc16(buf, n) == CrcRange(buf, 1, n, 0)

\* setCrc16(data): writes the checksum, low byte first, at data[length-2..]
setCrc16(buf) ==
  LET len == At(buf, PtrLength)
      crc == getCrc16(buf, len - 2)
  IN [i \in 1..Len(buf) |->
        IF i = len - 1 THEN crc % 256
        ELSE IF i = len THEN crc \div 256
        ELSE buf[i]]

\* TRUE when checkCrc16 reads only bytes of the buffer it was handed
CrcInBounds(buf) ==
  At(buf, PtrLength) >= 2 /\ At(buf, PtrLength) <= Len(buf)

\* checkCrc16(data) on a buffer it can read in full
checkCrc16(buf) ==
  LET len == At(buf, PtrLength)
      crc == getCrc16(buf, len - 2)
  IN buf[len - 1] = crc % 256 /\ buf[len] = crc \div 256

\* the verdicts checkCrc16 can give: reading past the end of the buffer
\* compares against whatever the stack holds there
CrcVerdicts(buf) ==
  IF CrcInBounds(buf) THEN {checkCrc16(buf)} ELSE BOOLEAN

(***************************************************************************)
(* PmxBase::checkRecv                                                      *)
(***************************************************************************)
\* as checkRecv, with the checksum looked at before the header and command
checkRecvCrcFirst(rxBuff, cmd, header, crcOk) ==
  IF crcOk = FALSE THEN CrcError
  ELSE IF At(rxBuff, 0) # header \/ At(rxBuff, 1) # header THEN ReceiveError
  ELSE IF At(rxBuff, PtrCMD) # cmd % 128 THEN ReceiveError
  ELSE ComOK

\* as checkRecv, with the mask applied to the received byte as well
checkRecvMaskReceived(rxBuff, cmd, header, crcOk) ==
  IF At(rxBuff, 0) # header \/ At(rxBuff, 1) # header THEN ReceiveError
  ELSE IF At(rxBuff, PtrCMD) % 128 # cmd % 128 THEN ReceiveError
  ELSE IF crcOk = FALSE THEN CrcError
  ELSE ComOK

checkRecv(rxBuff, cmd, header, crcOk) ==
  IF At(rxBuff, 0) # header \/ At(rxBuff, 1) # header THEN ReceiveError
  ELSE IF At(rxBuff, PtrCMD) # cmd % 128 THEN ReceiveError
  ELSE IF crcOk = FALSE THEN CrcError
  ELSE ComOK

(***************************************************************************)
(* State.                                                                  *)
(***************************************************************************)
VARIABLES
  pc,      \* the caller's position: "idle" before a call, "done" after it
  call,    \* the protocol operation just executed, with all it produced
  mem,     \* RAM of the loopback device, address -> byte, per device id
  nWrites, \* writes the loopback device has accepted
  last,    \* the last MemWRITE made to the loopback device
  isSynchronize,  \* PmxHardSerial::_isSynchronize, the busy flag
  thread,  \* per thread of control: its position in a transport function
  port,    \* PmxHardSerial::receiveBuff and the bytes the serial port holds
  seen     \* history: the exchanges made so far and what they returned

vars == <<pc, call, mem, nWrites, last, isSynchronize, thread, port, seen>>

(***************************************************************************)
(* The environment: what the caller passes and what the bus delivers.      *)
(***************************************************************************)
\* device ids and register addresses the caller uses
Targets == {<<1, 0>>, <<2, 4660>>}

\* status bytes a device reports
StatusBytes == {0, 129}

\* payload bytes: pattern `seed` of length n
Pattern(n, seed) == [i \in 1..n |-> (101 * seed + 37 * i) % 256]

Seeds == 0..(NumSeeds - 1)

\* content an output buffer may hold before the call (never initialised
\* by the caller): any byte value, here one that is not the sentinel and
\* the sentinel itself
PriorFills == {0, ErrorByteData}

Fill(n, b) == [i \in 1..n |-> b]

\* a response frame as a device builds it; crcGood = FALSE damages the
\* checksum's high byte
RespFrame(h0, h1, id, cmd, st, payload, crcGood) ==
  LET len == 8 + Len(payload)
      f   == setCrc16(<<h0, h1, id, len, cmd, st>> \o payload \o <<0, 0>>)
  IN IF crcGood THEN f ELSE SetAt(f, len - 1, (At(f, len - 1) + 1) % 256)

\* the command byte of a response: the device answers with the request's
\* command, top bit cleared ("resp"); "echo" repeats the request's byte,
\* "other" is a different command
RespCmd(cmd, kind) ==
  IF kind = "resp" THEN cmd % 128
  ELSE IF kind = "echo" THEN cmd
  ELSE (cmd % 128) + 1

\* what can go wrong with a response: header bytes, command byte,
\* checksum; dlen: payload bytes more or fewer than the request implies;
\* extra: bytes following the frame on the bus; cut: bytes of the frame
\* that never arrive before the timeout (999: none arrives)
FrameFaults ==
  [h0 : {DefaultHeader, 0}, h1 : {DefaultHeader}, cmd : {"resp", "echo", "other"},
   crc : BOOLEAN, dlen : {0}, extra : {0}, cut : {0}]
  \cup
  [h0 : {DefaultHeader}, h1 : {0}, cmd : {"resp", "other"},
   crc : BOOLEAN, dlen : {0}, extra : {0}, cut : {0}]

NoFault ==
  [h0 |-> DefaultHeader, h1 |-> DefaultHeader, cmd |-> "resp", crc |-> TRUE,
   dlen |-> 0, extra |-> 0, cut |-> 0]

LengthFaults(dlens) ==
  {[NoFault EXCEPT !.dlen = d, !.extra = e] : d \in dlens \ {0}, e \in {0, 1}}

CutFaults == {[NoFault EXCEPT !.cut = c] : c \in {1, 999}}

\* a frame longer than the request implies whose checksum is damaged
LongBadFaults(dlens) ==
  {[NoFault EXCEPT !.dlen = d, !.crc = FALSE] : d \in {e \in dlens : e > 0}}

\* frames longer than this get only the plain outcomes: answered,
\* damaged checksum, silence
BigPayload == 200

BigFaults == {NoFault, [NoFault EXCEPT !.crc = FALSE], [NoFault EXCEPT !.cut = 999]}

\* the bytes that arrive before the timeout when a device answers a
\* request (id, cmd) whose response should carry `payload`, under fault f
Wire(id, cmd, st, payload, f) ==
  LET n     == Len(payload) + f.dlen
      pl    == [i \in 1..n |-> IF i <= Len(payload) THEN payload[i] ELSE 90]
      frame == RespFrame(f.h0, f.h1, id, RespCmd(cmd, f.cmd), st, pl, f.crc)
      sent  == frame \o [i \in 1..f.extra |-> 165]
      keep  == IF f.cut >= Len(sent) THEN 0 ELSE Len(sent) - f.cut
  IN Take(sent, keep)

(***************************************************************************)
(* PmxHardSerial::synchronize on an initialised transport that is not      *)
(* busy: send, clear rxLen bytes of receiveBuff to 0xFF, read up to rxLen  *)
(* bytes before the timeout, copy rxLen bytes to the caller.               *)
(***************************************************************************)
\* in place of the bytes on the bus: the transport turns the call away at
\* its entry, pmxSerial being null or another exchange being in flight,
\* and writes neither rxBuf nor *rxLen
Rejected == <<-1>>

\* as synchronize, satisfied with any byte read
synchronizeAnyByte(wire, rxLen) ==
  LET rxSize == Min(Len(wire), rxLen)
  IN [ok    |-> rxSize > 0,
      rxBuf |-> [i \in 1..rxLen |-> IF i <= rxSize THEN wire[i] ELSE 255]]

\* as synchronize, reporting a call it turned away as done
synchronizeStale(wire, rxLen) ==
  LET rxSize == Min(Len(wire), rxLen)
  IN IF wire = Rejected
     THEN [ok |-> TRUE, rxBuf |-> [i \in 1..rxLen |-> 255]]
     ELSE [ok    |-> rxSize = rxLen,
           rxBuf |-> [i \in 1..rxLen |-> IF i <= rxSize THEN wire[i] ELSE 255]]

synchronize(wire, rxLen) ==
  LET rxSize == Min(Len(wire), rxLen)
  IN IF wire = Rejected
     THEN [ok |-> FALSE, rxBuf |-> <<>>]
     ELSE [ok    |-> rxSize = rxLen,
           rxBuf |-> [i \in 1..rxLen |-> IF i <= rxSize THEN wire[i] ELSE 255]]

(***************************************************************************)
(* PmxHardSerial::synchronizeVariableRead on an initialised transport that *)
(* is not busy.  cap is the size of the caller's rxBuf.  The first six     *)
(* bytes hold the frame's length; the rest is read by it.  memcpy copies   *)
(* allRxSize bytes whatever the caller's buffer holds: overflow says that  *)
(* it wrote past the end of rxBuf.                                         *)
(***************************************************************************)
\* as synchronizeVariableRead, reporting no byte when the rest is short
synchronizeVariableReadZero(wire, cap) ==
  LET minRxSize       == MinLenReceive - 2
      firstRxBuffSize == Min(Len(wire), minRxSize)
  IN
  IF firstRxBuffSize # minRxSize
  THEN [ok |-> FALSE, rxLen |-> 0, rxBuf |-> <<>>, overflow |-> FALSE]
  ELSE
    LET allRxSize       == At(wire, PtrLength)
        secondRxBuffSize == (allRxSize - minRxSize) % 256
        sBuffSize       == Min(Len(wire) - minRxSize, secondRxBuffSize)
    IN
    IF secondRxBuffSize # sBuffSize
    THEN [ok |-> FALSE, rxLen |-> 0, rxBuf |-> <<>>, overflow |-> FALSE]
    ELSE [ok |-> TRUE, rxLen |-> allRxSize, rxBuf |-> Take(wire, allRxSize),
          overflow |-> allRxSize > cap]

synchronizeVariableRead(wire, cap) ==
  LET minRxSize       == MinLenReceive - 2
      firstRxBuffSize == Min(Len(wire), minRxSize)
  IN
  IF wire = Rejected
  THEN [ok |-> FALSE, rxLen |-> -1, rxBuf |-> <<>>, overflow |-> FALSE,
        second |-> 0, stored |-> 0]
  ELSE IF firstRxBuffSize # minRxSize
  THEN [ok |-> FALSE, rxLen |-> 0, rxBuf |-> <<>>, overflow |-> FALSE,
        second |-> 0, stored |-> 0]
  ELSE
    LET allRxSize       == At(wire, PtrLength)
        secondRxBuffSize == (allRxSize - minRxSize) % 256
        sBuffSize       == Min(Len(wire) - minRxSize, secondRxBuffSize)
    IN
    IF secondRxBuffSize # sBuffSize
    THEN [ok |-> FALSE, rxLen |-> minRxSize, rxBuf |-> <<>>, overflow |-> FALSE,
          second |-> secondRxBuffSize, stored |-> sBuffSize]
    ELSE [ok |-> TRUE, rxLen |-> allRxSize, rxBuf |-> Take(wire, allRxSize),
          overflow |-> allRxSize > cap,
          second |-> secondRxBuffSize, stored |-> sBuffSize]

(***************************************************************************)
(* The record of a call.                                                   *)
(***************************************************************************)
NoCall ==
  [op |-> "none", id |-> 0, addr |-> 0, size |-> 0, data |-> <<>>, opt |-> 0,
   ret |-> 0, out |-> <<>>, nSync |-> 0, kind |-> "none",
   tx |-> <<>>, txLen |-> 0, rxLen |-> 0, wire |-> <<>>,
   rxFlag |-> FALSE, rxbuf |-> <<>>, chk |-> -1, ub |-> FALSE,
   mode |-> 0, ctrl |-> 0, tsw |-> 0, tswGiven |-> FALSE, tswOut |-> -1,
   rxNow |-> 0, decoded |-> FALSE, crcOk |-> TRUE, first |-> <<>>]

(***************************************************************************)
(* PmxBase::MemREAD.  rxData is the caller's buffer as it was before the   *)
(* call, wire what the bus delivers, crcOk the verdict of checkCrc16.      *)
(***************************************************************************)
\* as MemREADTx, with the two address bytes in the other order
MemREADTxSwapped(id, addr, readDataSize) ==
  setCrc16(<<254, 254, ToByte(id), ToByte(11), CmdMemREAD, 0,
             (addr \div 256) % 256, addr % 256, ToByte(readDataSize), 0, 0>>)

\* as MemREADFormatError, with > for >=
MemREADFormatErrorGt(readDataSize) ==
  readDataSize = 0 \/ readDataSize > 244

\* the size check: PUT_MAX_DATA_LENGTH = 244
MemREADFormatError(readDataSize) ==
  readDataSize = 0 \/ readDataSize >= 244

MemREADTx(id, addr, readDataSize) ==
  setCrc16(<<254, 254, ToByte(id), ToByte(11), CmdMemREAD, 0,
             addr % 256, (addr \div 256) % 256, ToByte(readDataSize), 0, 0>>)

MemREAD(id, addr, readDataSize, rxData, wire, crcOk) ==
  LET base == [NoCall EXCEPT !.op = "MemREAD", !.id = id, !.addr = addr,
                             !.size = readDataSize, !.out = rxData]
  IN
  IF MemREADFormatError(readDataSize)
  THEN [base EXCEPT !.ret = FormatError]
  ELSE
    LET txSize == 11
        rxSize == 8 + readDataSize
        txbuf  == MemREADTx(id, addr, readDataSize)
        sync   == synchronize(wire, rxSize)
        sent   == [base EXCEPT !.nSync = 1, !.kind = "fixed", !.tx = txbuf,
                               !.txLen = txSize, !.rxLen = rxSize, !.wire = wire,
                               !.rxFlag = sync.ok, !.rxbuf = sync.rxBuf,
                               !.crcOk = crcOk]
    IN
    IF sync.ok = FALSE
    THEN [sent EXCEPT !.out = [i \in 1..Len(rxData) |->
                                 IF i <= readDataSize THEN 255 ELSE rxData[i]],
                      !.ret = TimeOut]
    ELSE
      LET errorFlag == checkRecv(sync.rxBuf, CmdMemREAD, DefaultHeader, crcOk)
      IN
      IF errorFlag # ComOK
      THEN [sent EXCEPT !.chk = errorFlag, !.ret = errorFlag]
      ELSE [sent EXCEPT !.chk = errorFlag,
                        !.out = [i \in 1..Len(rxData) |->
                                   IF i <= readDataSize
                                   THEN At(sync.rxBuf, PtrData + i - 1)
                                   ELSE rxData[i]],
                        !.ret = At(sync.rxBuf, PtrStatus)]

\* the verdicts checkCrc16 can give MemREAD on what the bus delivered
FixedVerdicts(wire, rxSize) ==
  LET sync == synchronize(wire, rxSize)
  IN IF sync.ok THEN CrcVerdicts(sync.rxBuf) ELSE {TRUE}

(***************************************************************************)
(* PmxBase::MemWRITE                                                       *)
(***************************************************************************)
\* as MemWRITEFormatError, with > for >=
MemWRITEFormatErrorGt(txDataSize) ==
  txDataSize = 0 \/ txDataSize > 245

\* the size check: PUT_MAX_DATA_LENGTH = 245
MemWRITEFormatError(txDataSize) ==
  txDataSize = 0 \/ txDataSize >= 245

\* as MemWRITETx, with the data bytes in the opposite order
MemWRITETxReversed(id, addr, txDataArray, txDataSize, writeOpt) ==
  LET txSize == MinLenSend + 2 + txDataSize
  IN setCrc16(<<254, 254, ToByte(id), ToByte(txSize), CmdMemWRITE, ToByte(writeOpt),
                addr % 256, (addr \div 256) % 256>>
              \o [i \in 1..txDataSize |-> ToByte(txDataArray[txDataSize + 1 - i])]
              \o <<0, 0>>)

MemWRITETx(id, addr, txDataArray, txDataSize, writeOpt) ==
  LET txSize == MinLenSend + 2 + txDataSize
  IN setCrc16(<<254, 254, ToByte(id), ToByte(txSize), CmdMemWRITE, ToByte(writeOpt),
                addr % 256, (addr \div 256) % 256>>
              \o [i \in 1..txDataSize |-> ToByte(txDataArray[i])] \o <<0, 0>>)

MemWRITE(id, addr, txDataArray, txDataSize, writeOpt, wire, crcOk) ==
  LET base == [NoCall EXCEPT !.op = "MemWRITE", !.id = id, !.addr = addr,
                             !.size = txDataSize, !.data = txDataArray,
                             !.opt = writeOpt]
  IN
  IF MemWRITEFormatError(txDataSize)
  THEN [base EXCEPT !.ret = FormatError]
  ELSE
    LET txSize == MinLenSend + 2 + txDataSize
        rxSize == MinLenReceive
        txbuf  == MemWRITETx(id, addr, txDataArray, txDataSize, writeOpt)
        sync   == synchronize(wire, rxSize)
        sent   == [base EXCEPT !.nSync = 1, !.kind = "fixed", !.tx = txbuf,
                               !.txLen = txSize, !.rxLen = rxSize, !.wire = wire,
                               !.rxFlag = sync.ok, !.rxbuf = sync.rxBuf,
                               !.crcOk = crcOk]
    IN
    IF sync.ok = FALSE
    THEN [sent EXCEPT !.ret = TimeOut]
    ELSE
      LET errorFlag == checkRecv(sync.rxBuf, CmdMemWRITE, DefaultHeader, crcOk)
      IN
      IF errorFlag # ComOK
      THEN [sent EXCEPT !.chk = errorFlag, !.ret = errorFlag]
      ELSE [sent EXCEPT !.chk = errorFlag, !.ret = At(sync.rxBuf, PtrStatus)]

(***************************************************************************)
(* The typed register reads.  prior is what the output (or the local       *)
(* reByte array) holds before MemREAD runs.                                *)
(***************************************************************************)
\* status & PMX::ComError::ErrorMask
ErrorBits(status) == BitAnd(status, ErrorMask)

MemREADToByte(id, addr, prior, wire, crcOk) ==
  LET r == MemREAD(id, addr, 1, prior, wire, crcOk)
  IN [r EXCEPT !.op = "MemREADToByte",
               !.out = IF ErrorBits(r.ret) # 0 THEN ErrorByteData ELSE r.out[1]]

MemREADToInt16(id, addr, prior, wire, crcOk) ==
  LET r == MemREAD(id, addr, 2, prior, wire, crcOk)
  IN [r EXCEPT !.op = "MemREADToInt16",
               !.out = IF ErrorBits(r.ret) # 0 THEN ToShort(ErrorUint16Data)
                       ELSE bytesToInt16(r.out)]

MemREADToUint16(id, addr, prior, wire, crcOk) ==
  LET r == MemREAD(id, addr, 2, prior, wire, crcOk)
  IN [r EXCEPT !.op = "MemREADToUint16",
               !.out = IF ErrorBits(r.ret) # 0 THEN ToUint16(ToShort(ErrorUint16Data))
                       ELSE ToUint16(bytesToInt16(r.out))]

MemREADToInt32(id, addr, prior, wire, crcOk) ==
  LET r == MemREAD(id, addr, 4, prior, wire, crcOk)
  IN [r EXCEPT !.op = "MemREADToInt32",
               !.out = IF ErrorBits(r.ret) # 0 THEN ToShort(ErrorUint32Data)
                       ELSE bytesToInt32(r.out)]

MemREADToUint32(id, addr, prior, wire, crcOk) ==
  LET r == MemREAD(id, addr, 4, prior, wire, crcOk)
  IN [r EXCEPT !.op = "MemREADToUint32",
               !.out = IF ErrorBits(r.ret) # 0 THEN ToUint32(ToShort(ErrorUint32Data))
                       ELSE ToUint32(bytesToInt32(r.out))]

(***************************************************************************)
(* PmxBase::__byteCounter and PmxBase::__convReceiveMotorData              *)
(***************************************************************************)
\* as byteCounterLoop, looking at seven bits
RECURSIVE byteCounterLoopSeven(_, _, _)
byteCounterLoopSeven(i, val, cnt) ==
  IF i >= 7 THEN cnt
  ELSE byteCounterLoopSeven(i + 1, val \div 2, IF val % 2 = 1 THEN cnt + 1 ELSE cnt)

RECURSIVE byteCounterLoop(_, _, _)
byteCounterLoop(i, val, cnt) ==
  IF i = 8 THEN cnt
  ELSE byteCounterLoop(i + 1, val \div 2, IF val % 2 = 1 THEN cnt + 1 ELSE cnt)

byteCounter(val) == byteCounterLoop(0, val, 0) * 2

\* the 8 slots at the error value
SentinelSample == [i \in 1..8 |-> ErrorUint32Data]

\* bit k of the receive mode selects field k
HasField(receiveMode, k) == (receiveMode \div (2 ^ k)) % 2 = 1

\* as convField, with the voltage read as a signed value
convFieldVoltageSigned(k, receiveBytes, arrayCount, controlMode) ==
  LET two == <<receiveBytes[arrayCount + 1], receiveBytes[arrayCount + 2]>>
  IN IF k = 0
     THEN IF BitAnd(controlMode, ControlModePosition) = ControlModePosition
          THEN bytesToInt16(two) ELSE bytesToUint16(two)
     ELSE bytesToInt16(two)

\* the conversion of field k from the two bytes at arrayCount
convField(k, receiveBytes, arrayCount, controlMode) ==
  LET two == <<receiveBytes[arrayCount + 1], receiveBytes[arrayCount + 2]>>
  IN IF k = 0
     THEN IF BitAnd(controlMode, ControlModePosition) = ControlModePosition
          THEN bytesToInt16(two) ELSE bytesToUint16(two)
     ELSE IF k = 7 THEN bytesToUint16(two)
     ELSE bytesToInt16(two)

\* as convFields, with arrayCount left where it is after a field
RECURSIVE convFieldsNoAdvance(_, _, _, _, _, _)
convFieldsNoAdvance(k, receiveMode, receiveBytes, controlMode, arrayCount, motorData) ==
  IF k = 8 THEN motorData
  ELSE IF HasField(receiveMode, k)
  THEN convFieldsNoAdvance(k + 1, receiveMode, receiveBytes, controlMode, arrayCount,
                           [motorData EXCEPT ![k + 1] =
                              convField(k, receiveBytes, arrayCount, controlMode)])
  ELSE convFieldsNoAdvance(k + 1, receiveMode, receiveBytes, controlMode, arrayCount,
                           motorData)

RECURSIVE convFields(_, _, _, _, _, _)
convFields(k, receiveMode, receiveBytes, controlMode, arrayCount, motorData) ==
  IF k = 8 THEN motorData
  ELSE IF HasField(receiveMode, k)
  THEN convFields(k + 1, receiveMode, receiveBytes, controlMode, arrayCount + 2,
                  [motorData EXCEPT ![k + 1] =
                     convField(k, receiveBytes, arrayCount, controlMode)])
  ELSE convFields(k + 1, receiveMode, receiveBytes, controlMode, arrayCount, motorData)

convReceiveMotorData(receiveMode, receiveBytes, receiveBytesSize, controlMode) ==
  IF receiveBytesSize # byteCounter(receiveMode)
  THEN [flag |-> FALSE, motorData |-> SentinelSample]
  ELSE [flag |-> TRUE,
        motorData |-> convFields(0, receiveMode, receiveBytes, controlMode, 0,
                                 SentinelSample)]

(***************************************************************************)
(* What a write past the end of a stack buffer can leave behind: the       *)
(* function may go on as written, or go on with its locals and the         *)
(* caller's output overwritten by bytes of the frame.                      *)
(***************************************************************************)
SmashedSample(rxBuf) ==
  [i \in 1..8 |-> rxBuf[Len(rxBuf) - 1] + 256 * rxBuf[Len(rxBuf)]]

Smashed(r, rxBuf) ==
  {[r EXCEPT !.ub = TRUE],
   [r EXCEPT !.ub = TRUE, !.out = SmashedSample(rxBuf), !.decoded = TRUE,
             !.ret = At(rxBuf, PtrStatus)]}

(***************************************************************************)
(* PmxBase::MotorREAD: the set of results of one call.                     *)
(***************************************************************************)
MotorTx(id, txSize, cmd, option, body) ==
  setCrc16(<<254, 254, ToByte(id), ToByte(txSize), cmd, ToByte(option)>>
           \o body \o <<0, 0>>)

MotorREADWritten(id, receiveMode, controlMode, tswGiven, wire, crcOk) ==
  LET readDataSize == byteCounter(receiveMode)
      txSize == MinLenSend
      rxSize == MinLenReceive + 1 + readDataSize
      txbuf  == MotorTx(id, txSize, CmdMotorREAD, 0, <<>>)
      sync   == synchronizeVariableRead(wire, rxSize)
      sent   == [NoCall EXCEPT !.op = "MotorREAD", !.id = id, !.mode = receiveMode,
                               !.ctrl = controlMode, !.tswGiven = tswGiven,
                               !.out = SentinelSample,
                               !.tswOut = IF tswGiven THEN TorqueSwitchError ELSE -1,
                               !.nSync = 1, !.kind = "variable", !.tx = txbuf,
                               !.txLen = txSize, !.rxLen = rxSize, !.wire = wire,
                               !.rxFlag = sync.ok, !.rxbuf = sync.rxBuf,
                               !.rxNow = sync.rxLen, !.crcOk = crcOk]
  IN
  IF sync.ok = FALSE
  THEN [sent EXCEPT !.ret = TimeOut]
  ELSE
    LET errorFlag == checkRecv(sync.rxBuf, CmdMotorREAD, DefaultHeader, crcOk)
    IN
    IF errorFlag # ComOK
    THEN [sent EXCEPT !.chk = errorFlag, !.ret = errorFlag]
    ELSE
      LET withSw == [sent EXCEPT !.chk = errorFlag,
                       !.tswOut = IF tswGiven /\ sync.rxLen >= MinLenReceive
                                  THEN At(sync.rxBuf, PtrData) ELSE @]
          status == At(sync.rxBuf, PtrStatus)
      IN
      IF sync.rxLen # rxSize
      THEN [withSw EXCEPT !.ret = status + MotorREADConvertError]
      ELSE
        LET rxMotorData == [i \in 1..readDataSize |-> At(sync.rxBuf, PtrData + 1 + i - 1)]
            conv == convReceiveMotorData(receiveMode, rxMotorData, readDataSize,
                                         controlMode)
        IN
        IF conv.flag = FALSE
        THEN [withSw EXCEPT !.out = conv.motorData,
                            !.ret = status + MotorREADConvertError]
        ELSE [withSw EXCEPT !.out = conv.motorData, !.decoded = TRUE,
                            !.ret = status]

MotorREAD(id, receiveMode, controlMode, tswGiven, wire, crcOk) ==
  LET r    == MotorREADWritten(id, receiveMode, controlMode, tswGiven, wire, crcOk)
      sync == synchronizeVariableRead(wire, r.rxLen)
  IN IF sync.ok /\ sync.overflow THEN Smashed(r, sync.rxBuf) ELSE {r}

\* the verdicts checkCrc16 can give on what a variable-length read returned
VariableVerdicts(wire, cap) ==
  LET sync == synchronizeVariableRead(wire, cap)
  IN IF sync.ok THEN CrcVerdicts(sync.rxBuf) ELSE {TRUE}

(***************************************************************************)
(* PmxBase::MotorWRITE, torque-switch form: the set of results of a call.  *)
(* receiveData is never NULL here.                                         *)
(***************************************************************************)
MotorWRITEBufSize == 26

\* as TorqueSwitchDefined, with Hold left out
TorqueSwitchDefinedNoHold(toruqeOnSw) ==
  toruqeOnSw = TorqueOn \/ toruqeOnSw = Free \/ toruqeOnSw = Brake

\* the torque switch is one of the defined values
TorqueSwitchDefined(toruqeOnSw) ==
  toruqeOnSw = TorqueOn \/ toruqeOnSw = Free
  \/ toruqeOnSw = Brake \/ toruqeOnSw = Hold

\* as MotorWRITETorqueWritten, with the size compared for NoReturn as well
MotorWRITETorqueSizeChecked(id, toruqeOnSw, receiveMode, controlMode, wire, crcOk) ==
  LET base == [NoCall EXCEPT !.op = "MotorWRITETorque", !.id = id,
                             !.tsw = toruqeOnSw, !.mode = receiveMode,
                             !.ctrl = controlMode, !.out = SentinelSample]
  IN
  IF ~ TorqueSwitchDefined(toruqeOnSw)
  THEN [base EXCEPT !.ret = FormatError]
  ELSE
    LET readDataSize == byteCounter(receiveMode)
        txSize == MinLenSend
        rxSize == MinLenReceive + 1 + readDataSize
        txbuf  == MotorTx(id, txSize, CmdMotorWRITE, toruqeOnSw, <<>>)
        sync   == synchronizeVariableRead(wire, MotorWRITEBufSize)
        sent   == [base EXCEPT !.nSync = 1, !.kind = "variable", !.tx = txbuf,
                               !.txLen = txSize, !.rxLen = rxSize, !.wire = wire,
                               !.rxFlag = sync.ok, !.rxbuf = sync.rxBuf,
                               !.rxNow = sync.rxLen, !.crcOk = crcOk]
    IN
    IF sync.ok = FALSE
    THEN [sent EXCEPT !.ret = TimeOut]
    ELSE
      LET errorFlag == checkRecv(sync.rxBuf, CmdMotorWRITE, DefaultHeader, crcOk)
      IN
      IF errorFlag # ComOK
      THEN [sent EXCEPT !.chk = errorFlag, !.ret = errorFlag]
      ELSE
        LET status == At(sync.rxBuf, PtrStatus)
            ok     == [sent EXCEPT !.chk = errorFlag]
        IN
        IF sync.rxLen # rxSize
        THEN [ok EXCEPT !.ret = status + ReceiveError]
        ELSE
          LET rxMotorData == [i \in 1..readDataSize |->
                                At(sync.rxBuf, PtrData + 1 + i - 1)]
              conv == convReceiveMotorData(receiveMode, rxMotorData, readDataSize,
                                           controlMode)
          IN
          IF conv.flag = FALSE
          THEN [ok EXCEPT !.out = conv.motorData,
                          !.ret = status + MotorREADConvertError]
          ELSE [ok EXCEPT !.out = conv.motorData, !.decoded = TRUE, !.ret = status]

MotorWRITETorqueWritten(id, toruqeOnSw, receiveMode, controlMode, wire, crcOk) ==
  LET base == [NoCall EXCEPT !.op = "MotorWRITETorque", !.id = id,
                             !.tsw = toruqeOnSw, !.mode = receiveMode,
                             !.ctrl = controlMode, !.out = SentinelSample]
  IN
  IF ~ TorqueSwitchDefined(toruqeOnSw)
  THEN [base EXCEPT !.ret = FormatError]
  ELSE
    LET readDataSize == byteCounter(receiveMode)
        txSize == MinLenSend
        rxSize == MinLenReceive + 1 + readDataSize
        txbuf  == MotorTx(id, txSize, CmdMotorWRITE, toruqeOnSw, <<>>)
        sync   == synchronizeVariableRead(wire, MotorWRITEBufSize)
        sent   == [base EXCEPT !.nSync = 1, !.kind = "variable", !.tx = txbuf,
                               !.txLen = txSize, !.rxLen = rxSize, !.wire = wire,
                               !.rxFlag = sync.ok, !.rxbuf = sync.rxBuf,
                               !.rxNow = sync.rxLen, !.crcOk = crcOk]
    IN
    IF sync.ok = FALSE
    THEN [sent EXCEPT !.ret = TimeOut]
    ELSE
      LET errorFlag == checkRecv(sync.rxBuf, CmdMotorWRITE, DefaultHeader, crcOk)
      IN
      IF errorFlag # ComOK
      THEN [sent EXCEPT !.chk = errorFlag, !.ret = errorFlag]
      ELSE
        LET status == At(sync.rxBuf, PtrStatus)
            ok     == [sent EXCEPT !.chk = errorFlag]
        IN
        IF receiveMode = NoReturn
        THEN [ok EXCEPT !.ret = status]
        ELSE IF sync.rxLen # rxSize
        THEN [ok EXCEPT !.ret = status + ReceiveError]
        ELSE
          LET rxMotorData == [i \in 1..readDataSize |->
                                At(sync.rxBuf, PtrData + 1 + i - 1)]
              conv == convReceiveMotorData(receiveMode, rxMotorData, readDataSize,
                                           controlMode)
          IN
          IF conv.flag = FALSE
          THEN [ok EXCEPT !.out = conv.motorData,
                          !.ret = status + MotorREADConvertError]
          ELSE [ok EXCEPT !.out = conv.motorData, !.decoded = TRUE, !.ret = status]

MotorWRITETorque(id, toruqeOnSw, receiveMode, controlMode, wire, crcOk) ==
  LET r    == MotorWRITETorqueWritten(id, toruqeOnSw, receiveMode, controlMode,
                                      wire, crcOk)
      sync == synchronizeVariableRead(wire, MotorWRITEBufSize)
  IN IF r.nSync = 1 /\ sync.ok /\ sync.overflow THEN Smashed(r, sync.rxBuf) ELSE {r}

(***************************************************************************)
(* PmxBase::MotorWRITE, target-value form: the set of results of a call.   *)
(* receiveData is never NULL here.                                         *)
(***************************************************************************)
\* as TargetWord, the conversion to short stopping at its largest value
TargetWordSaturated(v) ==
  IF v < 0 THEN int16ToBytes(ToShort(v))
  ELSE uint16ToBytes(IF v > 32767 THEN 32767 ELSE v)

\* the two bytes of one target value
TargetWord(v) ==
  IF v < 0 THEN int16ToBytes(ToShort(v)) ELSE uint16ToBytes(ToUint16(ToShort(v)))

\* as TargetWords, with the last value first
TargetWordsReversed(writeDatas, writeDataCount) ==
  [k \in 1..(2 * writeDataCount) |->
     TargetWord(writeDatas[writeDataCount + 1 - ((k + 1) \div 2)])[2 - (k % 2)]]

\* the loop over i < writeDataCount: bytes 2i and 2i + 1 of the body are
\* the two bytes of writeDatas[i]
TargetWords(writeDatas, writeDataCount) ==
  [k \in 1..(2 * writeDataCount) |->
     TargetWord(writeDatas[(k + 1) \div 2])[2 - (k % 2)]]

MotorWRITETargetWritten(id, writeDatas, writeDataCount, receiveMode, controlMode, wire, crcOk) ==
  LET readDataSize == byteCounter(receiveMode)
      txSize == MinLenSend + (writeDataCount * 2)
      rxSize == MinLenReceive + 1 + readDataSize
      txbuf  == MotorTx(id, txSize, CmdMotorWRITE, 0,
                        TargetWords(writeDatas, writeDataCount))
      sync   == synchronizeVariableRead(wire, MotorWRITEBufSize)
      sent   == [NoCall EXCEPT !.op = "MotorWRITETarget", !.id = id,
                               !.data = writeDatas, !.size = writeDataCount,
                               !.mode = receiveMode, !.ctrl = controlMode,
                               !.out = SentinelSample,
                               !.nSync = 1, !.kind = "variable", !.tx = txbuf,
                               !.txLen = ToByte(txSize), !.rxLen = rxSize,
                               !.wire = wire,
                               !.rxFlag = sync.ok, !.rxbuf = sync.rxBuf,
                               !.rxNow = sync.rxLen, !.crcOk = crcOk]
  IN
  IF sync.ok = FALSE
  THEN [sent EXCEPT !.ret = TimeOut]
  ELSE
    LET errorFlag == checkRecv(sync.rxBuf, CmdMotorWRITE, DefaultHeader, crcOk)
    IN
    IF errorFlag # ComOK
    THEN [sent EXCEPT !.chk = errorFlag, !.ret = errorFlag]
    ELSE
      LET status == At(sync.rxBuf, PtrStatus)
          ok     == [sent EXCEPT !.chk = errorFlag]
      IN
      IF receiveMode = NoReturn
      THEN [ok EXCEPT !.ret = status]
      ELSE IF sync.rxLen # rxSize
      THEN [ok EXCEPT !.ret = status + MotorREADConvertError]
      ELSE
        LET rxMotorData == [i \in 1..readDataSize |->
                              At(sync.rxBuf, PtrData + 1 + i - 1)]
            conv == convReceiveMotorData(receiveMode, rxMotorData, readDataSize,
                                         controlMode)
        IN
        IF conv.flag = FALSE
        THEN [ok EXCEPT !.out = conv.motorData,
                        !.ret = status + MotorREADConvertError]
        ELSE [ok EXCEPT !.out = conv.motorData, !.decoded = TRUE, !.ret = status]

MotorWRITETarget(id, writeDatas, writeDataCount, receiveMode, controlMode, wire, crcOk) ==
  LET r    == MotorWRITETargetWritten(id, writeDatas, writeDataCount, receiveMode,
                                      controlMode, wire, crcOk)
      sync == synchronizeVariableRead(wire, MotorWRITEBufSize)
  IN IF sync.ok /\ sync.overflow THEN Smashed(r, sync.rxBuf) ELSE {r}

(***************************************************************************)
(* PmxBase::LOAD, SAVE, SystemREAD, ReBoot, FactoryReset: a fixed request, *)
(* one fixed-size round trip, checkRecv, the status byte.                  *)
(***************************************************************************)
\* the request: header, id, length, command, option 0, body, checksum
CommandTx(id, cmd, body) ==
  setCrc16(<<254, 254, ToByte(id), ToByte(MinLenSend + Len(body)), cmd, 0>>
           \o body \o <<0, 0>>)

\* as StatusCommand, sending the request again after a timeout
StatusCommandRetry(base, cmd, txbuf, rxSize, wire, crcOk) ==
  LET sync == synchronize(wire, rxSize)
      sent == [base EXCEPT !.nSync = IF sync.ok THEN 1 ELSE 2,
                           !.kind = "fixed", !.tx = txbuf,
                           !.txLen = Len(txbuf), !.rxLen = rxSize, !.wire = wire,
                           !.rxFlag = sync.ok, !.rxbuf = sync.rxBuf,
                           !.crcOk = crcOk]
  IN
  IF sync.ok = FALSE
  THEN [sent EXCEPT !.ret = TimeOut]
  ELSE
    LET errorFlag == checkRecv(sync.rxBuf, cmd, DefaultHeader, crcOk)
    IN
    IF errorFlag # ComOK
    THEN [sent EXCEPT !.chk = errorFlag, !.ret = errorFlag]
    ELSE [sent EXCEPT !.chk = errorFlag, !.ret = At(sync.rxBuf, PtrStatus)]

\* the part the five operations share, from synchronize to the return
StatusCommand(base, cmd, txbuf, rxSize, wire, crcOk) ==
  LET sync == synchronize(wire, rxSize)
      sent == [base EXCEPT !.nSync = 1, !.kind = "fixed", !.tx = txbuf,
                           !.txLen = Len(txbuf), !.rxLen = rxSize, !.wire = wire,
                           !.rxFlag = sync.ok, !.rxbuf = sync.rxBuf,
                           !.crcOk = crcOk]
  IN
  IF sync.ok = FALSE
  THEN [sent EXCEPT !.ret = TimeOut]
  ELSE
    LET errorFlag == checkRecv(sync.rxBuf, cmd, DefaultHeader, crcOk)
    IN
    IF errorFlag # ComOK
    THEN [sent EXCEPT !.chk = errorFlag, !.ret = errorFlag]
    ELSE [sent EXCEPT !.chk = errorFlag, !.ret = At(sync.rxBuf, PtrStatus)]

LOAD(id, wire, crcOk) ==
  StatusCommand([NoCall EXCEPT !.op = "LOAD", !.id = id], CmdLOAD,
                CommandTx(id, CmdLOAD, <<>>), MinLenReceive, wire, crcOk)

SAVE(id, wire, crcOk) ==
  StatusCommand([NoCall EXCEPT !.op = "SAVE", !.id = id], CmdSAVE,
                CommandTx(id, CmdSAVE, <<>>), MinLenReceive, wire, crcOk)

SystemREAD(id, rxData, wire, crcOk) ==
  LET readDataSize == 13
      r == StatusCommand([NoCall EXCEPT !.op = "SystemREAD", !.id = id,
                                        !.size = readDataSize, !.out = rxData],
                         CmdSystemREAD, CommandTx(id, CmdSystemREAD, <<>>),
                         MinLenReceive + readDataSize, wire, crcOk)
  IN IF r.chk = ComOK
     THEN [r EXCEPT !.out = [i \in 1..readDataSize |-> At(r.rxbuf, PtrData + i - 1)]]
     ELSE r

ReBoot(id, resetTime, wire, crcOk) ==
  StatusCommand([NoCall EXCEPT !.op = "ReBoot", !.id = id, !.addr = resetTime],
                CmdReBoot,
                CommandTx(id, CmdReBoot,
                          <<resetTime % 256, (resetTime \div 256) % 256>>),
                8, wire, crcOk)

FactoryReset(id, serialNum, wire, crcOk) ==
  StatusCommand([NoCall EXCEPT !.op = "FactoryReset", !.id = id,
                               !.data = serialNum],
                CmdFactoryReset,
                CommandTx(id, CmdFactoryReset,
                          [i \in 1..4 |-> ToByte(serialNum[i])]),
                8, wire, crcOk)

(***************************************************************************)
(* Actions of the register access layer against an arbitrary bus.          *)
(***************************************************************************)
ReadSizes == {0, 1, 2, 4, 243, 244, 245, 300}

FaultsFor(n, dlens) ==
  IF n >= BigPayload THEN BigFaults
  ELSE FrameFaults \cup LengthFaults(dlens) \cup CutFaults

ValidRead(n) == n >= 1 /\ n <= 243

MemREADCall ==
  /\ pc = "idle"
  /\ \E t \in Targets, n \in ReadSizes, b \in PriorFills :
       IF ValidRead(n)
       THEN \E st \in StatusBytes, seed \in Seeds, f \in FaultsFor(n, {-1, 1}) :
              LET wire == Wire(t[1], CmdMemREAD, st, Pattern(n, seed), f)
              IN \E v \in FixedVerdicts(wire, 8 + n) :
                   call' = MemREAD(t[1], t[2], n, Fill(n, b), wire, v)
       ELSE call' = MemREAD(t[1], t[2], n, Fill(Min(n, 4), b), <<>>, TRUE)
  /\ pc' = "done"
  /\ UNCHANGED <<mem, nWrites, last, isSynchronize, thread, port, seen>>

WriteSizes == {0, 1, 2, 4, 244, 245, 300}

ValidWrite(n) == n >= 1 /\ n <= 244

WriteOpts == {0, 1}

MemWRITECall ==
  /\ pc = "idle"
  /\ \E t \in Targets, n \in WriteSizes, seed \in Seeds, o \in WriteOpts :
       IF ValidWrite(n)
       THEN \E st \in StatusBytes, f \in FaultsFor(n, {1}) :
              LET wire == Wire(t[1], CmdMemWRITE, st, <<>>, f)
              IN \E v \in FixedVerdicts(wire, 8) :
                   call' = MemWRITE(t[1], t[2], Pattern(n, seed), n, o, wire, v)
       ELSE call' = MemWRITE(t[1], t[2], Pattern(n, seed), n, o, <<>>, TRUE)
  /\ pc' = "done"
  /\ UNCHANGED <<mem, nWrites, last, isSynchronize, thread, port, seen>>

\* a typed read of width n: the bus, and the verdict of checkCrc16
TypedWires(t, n) ==
  {Wire(t[1], CmdMemREAD, st, Pattern(n, seed), f) :
     st \in StatusBytes, seed \in Seeds, f \in FaultsFor(n, {-1, 1})}

MemREADToByteCall ==
  /\ pc = "idle"
  /\ \E t \in Targets, b \in PriorFills :
       \E wire \in TypedWires(t, 1) :
       \E v \in FixedVerdicts(wire, 9) :
         call' = MemREADToByte(t[1], t[2], Fill(1, b), wire, v)
  /\ pc' = "done"
  /\ UNCHANGED <<mem, nWrites, last, isSynchronize, thread, port, seen>>

MemREADToInt16Call ==
  /\ pc = "idle"
  /\ \E t \in Targets, b \in PriorFills :
       \E wire \in TypedWires(t, 2) :
       \E v \in FixedVerdicts(wire, 10) :
         call' = MemREADToInt16(t[1], t[2], Fill(2, b), wire, v)
  /\ pc' = "done"
  /\ UNCHANGED <<mem, nWrites, last, isSynchronize, thread, port, seen>>

MemREADToUint16Call ==
  /\ pc = "idle"
  /\ \E t \in Targets, b \in PriorFills :
       \E wire \in TypedWires(t, 2) :
       \E v \in FixedVerdicts(wire, 10) :
         call' = MemREADToUint16(t[1], t[2], Fill(2, b), wire, v)
  /\ pc' = "done"
  /\ UNCHANGED <<mem, nWrites, last, isSynchronize, thread, port, seen>>

MemREADToInt32Call ==
  /\ pc = "idle"
  /\ \E t \in Targets, b \in PriorFills :
       \E wire \in TypedWires(t, 4) :
       \E v \in FixedVerdicts(wire, 12) :
         call' = MemREADToInt32(t[1], t[2], Fill(4, b), wire, v)
  /\ pc' = "done"
  /\ UNCHANGED <<mem, nWrites, last, isSynchronize, thread, port, seen>>

MemREADToUint32Call ==
  /\ pc = "idle"
  /\ \E t \in Targets, b \in PriorFills :
       \E wire \in TypedWires(t, 4) :
       \E v \in FixedVerdicts(wire, 12) :
         call' = MemREADToUint32(t[1], t[2], Fill(4, b), wire, v)
  /\ pc' = "done"
  /\ UNCHANGED <<mem, nWrites, last, isSynchronize, thread, port, seen>>

(***************************************************************************)
(* Actions of the motion command layer against an arbitrary bus.           *)
(***************************************************************************)
\* receive modes: none, position, position+current, speed+voltage, all
Modes == {NoReturn, 1, 5, 130, 255}

\* control mode and whether the caller passes a torque-switch output
Callers == {<<1, TRUE>>, <<2, FALSE>>}

\* the torque-switch byte a device reports
DeviceSw == Free

\* payloads a device may send instead of the expected 1 + fc bytes: one
\* field fewer or more, none at all, all eight fields
MotorDlens(fc) == {d \in {-2, 2, -(1 + fc), 16 - fc} : 1 + fc + d >= 0 /\ d # 0}

MotorWires(id, cmd, mode) ==
  LET fc == byteCounter(mode)
  IN {Wire(id, cmd, st, <<DeviceSw>> \o Pattern(fc, seed), f) :
        st \in StatusBytes, seed \in Seeds,
        f \in FrameFaults \cup LengthFaults(MotorDlens(fc)) \cup CutFaults
              \cup LongBadFaults(MotorDlens(fc))}

MotorREADCall ==
  /\ pc = "idle"
  /\ \E t \in Targets, m \in Modes, c \in Callers :
       \E wire \in MotorWires(t[1], CmdMotorREAD, m) :
         \E v \in VariableVerdicts(wire, 9 + byteCounter(m)) :
           call' \in MotorREAD(t[1], m, c[1], c[2], wire, v)
  /\ pc' = "done"
  /\ UNCHANGED <<mem, nWrites, last, isSynchronize, thread, port, seen>>

ValidSw(sw) == sw \in {TorqueOn, Free, Brake, Hold}

MotorWRITETorqueCall ==
  /\ pc = "idle"
  /\ \E t \in Targets, sw \in 0..255, m \in Modes :
       IF ValidSw(sw)
       THEN \E wire \in MotorWires(t[1], CmdMotorWRITE, m) :
              \E v \in VariableVerdicts(wire, MotorWRITEBufSize) :
                call' \in MotorWRITETorque(t[1], sw, m, 1, wire, v)
       ELSE call' \in MotorWRITETorque(t[1], sw, m, 1, <<>>, TRUE)
  /\ pc' = "done"
  /\ UNCHANGED <<mem, nWrites, last, isSynchronize, thread, port, seen>>

\* target values: none; one negative value; two values; three values at
\* the ends of the 16-bit ranges; four values; and, the count being an int the function
\* does not look at, as many values as make the frame longer than a byte
\* can say
WriteDatas ==
  {<<>>, <<-2>>, <<300, -300>>, <<4660, -32768, 65535>>, <<1, 2, 3, 4>>,
   [i \in 1..125 |-> i]}

MotorWRITETargetCall ==
  /\ pc = "idle"
  /\ \E t \in Targets, w \in WriteDatas, m \in Modes :
       \E wire \in MotorWires(t[1], CmdMotorWRITE, m) :
         \E v \in VariableVerdicts(wire, MotorWRITEBufSize) :
           call' \in MotorWRITETarget(t[1], w, Len(w), m, 1, wire, v)
  /\ pc' = "done"
  /\ UNCHANGED <<mem, nWrites, last, isSynchronize, thread, port, seen>>

\* the bus after a request whose response carries n data bytes
CommandWires(id, cmd, n) ==
  {Wire(id, cmd, st, Pattern(n, seed), f) :
     st \in StatusBytes, seed \in Seeds, f \in FaultsFor(n, {1})}

LOADCall ==
  /\ pc = "idle"
  /\ \E t \in Targets :
       \E wire \in CommandWires(t[1], CmdLOAD, 0) :
         \E v \in FixedVerdicts(wire, 8) : call' = LOAD(t[1], wire, v)
  /\ pc' = "done"
  /\ UNCHANGED <<mem, nWrites, last, isSynchronize, thread, port, seen>>

SAVECall ==
  /\ pc = "idle"
  /\ \E t \in Targets :
       \E wire \in CommandWires(t[1], CmdSAVE, 0) :
         \E v \in FixedVerdicts(wire, 8) : call' = SAVE(t[1], wire, v)
  /\ pc' = "done"
  /\ UNCHANGED <<mem, nWrites, last, isSynchronize, thread, port, seen>>

SystemREADCall ==
  /\ pc = "idle"
  /\ \E t \in Targets, b \in PriorFills :
       \E wire \in CommandWires(t[1], CmdSystemREAD, 13) :
         \E v \in FixedVerdicts(wire, 21) :
           call' = SystemREAD(t[1], Fill(13, b), wire, v)
  /\ pc' = "done"
  /\ UNCHANGED <<mem, nWrites, last, isSynchronize, thread, port, seen>>

ReBootCall ==
  /\ pc = "idle"
  /\ \E t \in Targets, resetTime \in {0, 4660} :
       \E wire \in CommandWires(t[1], CmdReBoot, 0) :
         \E v \in FixedVerdicts(wire, 8) : call' = ReBoot(t[1], resetTime, wire, v)
  /\ pc' = "done"
  /\ UNCHANGED <<mem, nWrites, last, isSynchronize, thread, port, seen>>

FactoryResetCall ==
  /\ pc = "idle"
  /\ \E t \in Targets, seed \in Seeds :
       \E wire \in CommandWires(t[1], CmdFactoryReset, 0) :
         \E v \in FixedVerdicts(wire, 8) :
           call' = FactoryReset(t[1], Pattern(4, seed), wire, v)
  /\ pc' = "done"
  /\ UNCHANGED <<mem, nWrites, last, isSynchronize, thread, port, seen>>

(***************************************************************************)
(* PmxBase::getSerialNumber, the forms of PmxBase::SystemWRITE and the     *)
(* setters built on them.  A call that makes two exchanges keeps the       *)
(* record of the earlier one in its field first.                           *)
(***************************************************************************)
\* serialByteNum as getSerialNumber leaves it, r being the record of its
\* SystemREAD: sysData is written by SystemREAD only when checkRecv passed
serialByteNum(r) ==
  [r EXCEPT !.op = "getSerialNumber",
            !.out = IF ErrorBits(r.ret) # 0 THEN <<255, 255, 255, 127>>
                    ELSE Take(r.out, 4)]

getSerialNumber(id, wire, crcOk) ==
  serialByteNum(SystemREAD(id, Fill(13, 0), wire, crcOk))

\* the form that takes the serial number as four bytes
SystemWRITE(id, serialNum, option, newId, newBaudrateVal, newParityVal, newResponseTime, wire, crcOk) ==
  StatusCommand([NoCall EXCEPT !.op = "SystemWRITE", !.id = id, !.opt = option,
                               !.data = serialNum],
                CmdSystemWRITE,
                setCrc16(<<254, 254, ToByte(id), ToByte(MinLenSend + 4 + 4),
                           CmdSystemWRITE, ToByte(option)>>
                         \o [i \in 1..4 |-> ToByte(serialNum[i])]
                         \o <<ToByte(newId), ToByte(newBaudrateVal),
                              ToByte(newParityVal), ToByte(newResponseTime)>>
                         \o <<0, 0>>),
                MinLenReceive, wire, crcOk)

\* as SystemWRITEAuto, going on to write whatever getSerialNumber returned
SystemWRITEAutoBlind(id, option, newId, newBaudrateVal, newParityVal, newResponseTime, wire1, crc1, wire2, crc2) ==
  LET g == getSerialNumber(id, wire1, crc1)
      w == SystemWRITE(id, g.out, option, newId, newBaudrateVal, newParityVal,
                       newResponseTime, wire2, crc2)
  IN [w EXCEPT !.op = "SystemWRITEAuto", !.nSync = 2, !.first = g]

\* the form without a serial number once getSerialNumber has returned g:
\* wire2 answers the SystemWRITE
SystemWRITEAfter(g, id, option, newId, newBaudrateVal, newParityVal, newResponseTime, wire2, crc2) ==
  IF ErrorBits(g.ret) # ComOK
  THEN [NoCall EXCEPT !.op = "SystemWRITEAuto", !.id = id, !.opt = option,
                      !.nSync = 1, !.ret = g.ret, !.first = g]
  ELSE [SystemWRITE(id, g.out, option, newId, newBaudrateVal, newParityVal,
                    newResponseTime, wire2, crc2)
          EXCEPT !.op = "SystemWRITEAuto", !.nSync = 2, !.first = g]

\* the form without a serial number: wire1 answers the SystemREAD of
\* getSerialNumber
SystemWRITEAuto(id, option, newId, newBaudrateVal, newParityVal, newResponseTime, wire1, crc1, wire2, crc2) ==
  SystemWRITEAfter(getSerialNumber(id, wire1, crc1), id, option, newId,
                   newBaudrateVal, newParityVal, newResponseTime, wire2, crc2)

\* as setId, without the check of newId
setIdUnchecked(id, newId, wire1, crc1, wire2, crc2) ==
  [SystemWRITEAuto(id, 1, newId, 0, 0, 0, wire1, crc1, wire2, crc2)
     EXCEPT !.op = "setId", !.data = <<newId>>]

setId(id, newId, wire1, crc1, wire2, crc2) ==
  IF newId < 0 \/ newId > 239
  THEN [NoCall EXCEPT !.op = "setId", !.id = id, !.data = <<newId>>,
                      !.ret = FormatError]
  ELSE [SystemWRITEAuto(id, 1, newId, 0, 0, 0, wire1, crc1, wire2, crc2)
          EXCEPT !.op = "setId", !.data = <<newId>>]

setBaudrate(id, newBaudRate, wire1, crc1, wire2, crc2) ==
  IF newBaudRate < 0 \/ newBaudRate > 7
  THEN [NoCall EXCEPT !.op = "setBaudrate", !.id = id, !.data = <<newBaudRate>>,
                      !.ret = FormatError]
  ELSE [SystemWRITEAuto(id, 2, 0, newBaudRate, 0, 0, wire1, crc1, wire2, crc2)
          EXCEPT !.op = "setBaudrate", !.data = <<newBaudRate>>]

setParity(id, newParityNum, wire1, crc1, wire2, crc2) ==
  IF newParityNum < 0 \/ newParityNum > 2
  THEN [NoCall EXCEPT !.op = "setParity", !.id = id, !.data = <<newParityNum>>,
                      !.ret = FormatError]
  ELSE [SystemWRITEAuto(id, 4, 0, 0, newParityNum, 0, wire1, crc1, wire2, crc2)
          EXCEPT !.op = "setParity", !.data = <<newParityNum>>]

setResponseTime(id, respTime, wire1, crc1, wire2, crc2) ==
  IF respTime < 1
  THEN [NoCall EXCEPT !.op = "setResponseTime", !.id = id, !.data = <<respTime>>,
                      !.ret = FormatError]
  ELSE [SystemWRITEAuto(id, 8, 0, 0, 0, respTime, wire1, crc1, wire2, crc2)
          EXCEPT !.op = "setResponseTime", !.data = <<respTime>>]

\* the bus after the SystemWRITE request: an acknowledgement, one with a
\* damaged checksum, or silence
AckWires(id) ==
  {Wire(id, CmdSystemWRITE, st, <<>>, f) : st \in StatusBytes, f \in BigFaults}

\* the values of a byte argument around a limit
ByteArgs(limit) == {0, 1, limit, limit + 1, 255}

SystemWRITEAutoCall ==
  /\ pc = "idle"
  /\ \E o \in {1, 15}, wire1 \in CommandWires(1, CmdSystemREAD, 13) :
       \E crc1 \in FixedVerdicts(wire1, 21), wire2 \in AckWires(1) :
         \E crc2 \in FixedVerdicts(wire2, 8) :
           call' = SystemWRITEAuto(1, o, 2, 3, 1, 50, wire1, crc1, wire2, crc2)
  /\ pc' = "done"
  /\ UNCHANGED <<mem, nWrites, last, isSynchronize, thread, port, seen>>

setIdCall ==
  /\ pc = "idle"
  /\ \E a \in ByteArgs(239), wire1 \in CommandWires(1, CmdSystemREAD, 13) :
       \E crc1 \in FixedVerdicts(wire1, 21), wire2 \in AckWires(1) :
         \E crc2 \in FixedVerdicts(wire2, 8) :
           call' = setId(1, a, wire1, crc1, wire2, crc2)
  /\ pc' = "done"
  /\ UNCHANGED <<mem, nWrites, last, isSynchronize, thread, port, seen>>

setBaudrateCall ==
  /\ pc = "idle"
  /\ \E a \in ByteArgs(7), wire1 \in CommandWires(1, CmdSystemREAD, 13) :
       \E crc1 \in FixedVerdicts(wire1, 21), wire2 \in AckWires(1) :
         \E crc2 \in FixedVerdicts(wire2, 8) :
           call' = setBaudrate(1, a, wire1, crc1, wire2, crc2)
  /\ pc' = "done"
  /\ UNCHANGED <<mem, nWrites, last, isSynchronize, thread, port, seen>>

setParityCall ==
  /\ pc = "idle"
  /\ \E a \in ByteArgs(2), wire1 \in CommandWires(1, CmdSystemREAD, 13) :
       \E crc1 \in FixedVerdicts(wire1, 21), wire2 \in AckWires(1) :
         \E crc2 \in FixedVerdicts(wire2, 8) :
           call' = setParity(1, a, wire1, crc1, wire2, crc2)
  /\ pc' = "done"
  /\ UNCHANGED <<mem, nWrites, last, isSynchronize, thread, port, seen>>

setResponseTimeCall ==
  /\ pc = "idle"
  /\ \E a \in ByteArgs(1), wire1 \in CommandWires(1, CmdSystemREAD, 13) :
       \E crc1 \in FixedVerdicts(wire1, 21), wire2 \in AckWires(1) :
         \E crc2 \in FixedVerdicts(wire2, 8) :
           call' = setResponseTime(1, a, wire1, crc1, wire2, crc2)
  /\ pc' = "done"
  /\ UNCHANGED <<mem, nWrites, last, isSynchronize, thread, port, seen>>

\* the transport object after begin(): sendBuff and receiveBuff as
\* constructed (of sendBuff the bytes of the last request are kept), no
\* byte waiting in the serial port
NoPort ==
  [receiveBuff |-> [i \in 1..256 |-> 0], pending |-> <<>>, sendBuff |-> <<>>]

\* no write was made yet
NoWrite == [valid |-> FALSE, id |-> 0, addr |-> 0, data |-> <<>>, ret |-> 0]

\* the threads of control that share one transport instance
Threads == {1, 2}

\* a thread outside the transport: fn is the function it is in, pc the
\* statement it is at, got what the reads returned, io the number of
\* serial-port operations the call has made, ret its return value, rxBuf
\* and rxLen what the call has written to the receive buffer and to the
\* length output of its caller (nothing, and -1 for no value)
NoThread ==
  [fn |-> "none", pc |-> "idle", got |-> TRUE, io |-> 0, ret |-> TRUE,
   rxBuf |-> <<>>, rxLen |-> -1]

\* the caller takes the result; nothing of the call outlives it
Return ==
  /\ pc = "done"
  /\ pc' = "idle"
  /\ call' = NoCall
  /\ UNCHANGED <<mem, nWrites, last, isSynchronize, thread, port, seen>>

Init ==
  /\ pc = "idle"
  /\ call = NoCall
  /\ mem = [t \in {} |-> 0]
  /\ nWrites = 0
  /\ last = NoWrite
  /\ isSynchronize = FALSE
  /\ thread = [t \in Threads |-> NoThread]
  /\ port = NoPort
  /\ seen = {}

Next ==
  \/ MemREADCall
  \/ MemWRITECall
  \/ MemREADToByteCall
  \/ MemREADToInt16Call
  \/ MemREADToUint16Call
  \/ MemREADToInt32Call
  \/ MemREADToUint32Call
  \/ MotorREADCall
  \/ MotorWRITETorqueCall
  \/ MotorWRITETargetCall
  \/ LOADCall
  \/ SAVECall
  \/ SystemREADCall
  \/ ReBootCall
  \/ FactoryResetCall
  \/ Return

Spec == Init /\ [][Next]_vars

(***************************************************************************)
(* The operations that write the system settings, on the same bus.         *)
(***************************************************************************)
NextSys ==
  \/ SystemWRITEAutoCall
  \/ setIdCall
  \/ setBaudrateCall
  \/ setParityCall
  \/ setResponseTimeCall
  \/ Return

SpecSys == Init /\ [][NextSys]_vars

(***************************************************************************)
(* The loopback device: it keeps the bytes written to it, per device id    *)
(* and address, and answers every request it can read with a well-formed   *)
(* frame of status 0.                                                      *)
(***************************************************************************)
\* the request is a whole frame with a right checksum
DeviceAccepts(tx) ==
  /\ Len(tx) >= MinLenSend
  /\ At(tx, 0) = DefaultHeader /\ At(tx, 1) = DefaultHeader
  /\ At(tx, PtrLength) = Len(tx)
  /\ checkCrc16(tx)

DeviceAddr(tx) == At(tx, PtrData) + 256 * At(tx, PtrData + 1)

\* the byte the device holds at addr, 0 where nothing was written
DeviceByte(m, id, addr) ==
  IF <<id, addr>> \in DOMAIN m THEN m[<<id, addr>>] ELSE 0

\* the memory after the request
DeviceStore(m, tx) ==
  IF DeviceAccepts(tx) /\ At(tx, PtrCMD) = CmdMemWRITE
  THEN LET id   == At(tx, 2)
           addr == DeviceAddr(tx)
           n    == Len(tx) - MinLenSend - 2
           new  == {<<id, (addr + i) % 65536>> : i \in 0..(n - 1)}
       IN [k \in DOMAIN m \cup new |->
             IF k \in new
             THEN At(tx, PtrData + 2 + ((k[2] - addr) % 65536))
             ELSE m[k]]
  ELSE m

\* the bytes the device puts on the bus after the request
DeviceReply(m, tx) ==
  IF ~ DeviceAccepts(tx) THEN <<>>
  ELSE IF At(tx, PtrCMD) = CmdMemWRITE
  THEN RespFrame(DefaultHeader, DefaultHeader, At(tx, 2), CmdMemWRITE % 128,
                 0, <<>>, TRUE)
  ELSE IF At(tx, PtrCMD) = CmdMemREAD /\ Len(tx) = 11
  THEN LET n == At(tx, PtrData + 2)
       IN RespFrame(DefaultHeader, DefaultHeader, At(tx, 2), CmdMemREAD % 128, 0,
                    [i \in 1..n |->
                       DeviceByte(m, At(tx, 2), (DeviceAddr(tx) + i - 1) % 65536)],
                    TRUE)
  ELSE <<>>

(***************************************************************************)
(* Register access against the loopback device.                            *)
(***************************************************************************)
LoopTargets == {<<1, 0>>, <<2, 4660>>, <<255, 65535>>}

LoopWriteSizes == {1, 4, 243, 244}

LoopReadSizes == {1, 4, 243, 244}

LoopWrite ==
  /\ pc = "idle"
  /\ nWrites < MaxWrites
  /\ \E t \in LoopTargets, n \in LoopWriteSizes, seed \in Seeds :
       LET data == Pattern(n, seed)
           tx   == MemWRITETx(t[1], t[2], data, n, 0)
           wire == DeviceReply(mem, tx)
       IN /\ \E v \in FixedVerdicts(wire, MinLenReceive) :
               call' = MemWRITE(t[1], t[2], data, n, 0, wire, v)
          /\ mem' = DeviceStore(mem, tx)
          /\ last' = [valid |-> TRUE, id |-> t[1], addr |-> t[2], data |-> data,
                      ret |-> call'.ret]
  /\ nWrites' = nWrites + 1
  /\ pc' = "done"
  /\ UNCHANGED <<isSynchronize, thread, port, seen>>

LoopRead ==
  /\ pc = "idle"
  /\ \E t \in LoopTargets, n \in LoopReadSizes, b \in PriorFills :
       LET wire == DeviceReply(mem, MemREADTx(t[1], t[2], n))
       IN \E v \in FixedVerdicts(wire, MinLenReceive + n) :
            call' = MemREAD(t[1], t[2], n, Fill(n, b), wire, v)
  /\ pc' = "done"
  /\ UNCHANGED <<mem, nWrites, last, isSynchronize, thread, port, seen>>

NextLoop ==
  \/ LoopWrite
  \/ LoopRead
  \/ Return

SpecLoop == Init /\ [][NextLoop]_vars

(***************************************************************************)
(* The transport, statement by statement, with two threads of control on   *)
(* one instance.  pmxSerial is set.  A thread is at "test" before the      *)
(* test of the busy flag, at "set" before the flag is raised, at "write"   *)
(* before __synchronizeWrite, at "read", "read1", "read2" before a         *)
(* readBytes, at "clear" before the flag is lowered, at "returned" when    *)
(* the function has returned.                                              *)
(***************************************************************************)
TransportFns == {"synchronize", "synchronizeVariableRead", "synchronizeNoRead"}

Others == <<pc, call, mem, nWrites, last, port, seen>>

\* the request of thread t and the answer to it, eight bytes each, are
\* told apart by their bytes: t in every byte of the request, 16 + t in
\* every byte of the answer
SyncFrameLen == MinLenReceive

SyncRequest(t) == [i \in 1..SyncFrameLen |-> t]

\* receiveBuff after its first n bytes were set to 0xFF and the k bytes
\* that came were stored from index from on
SyncStored(buf, t, n, from, k) ==
  [i \in 1..256 |->
     IF i > from /\ i <= from + k THEN 16 + t
     ELSE IF i <= n /\ i > from THEN 255
     ELSE buf[i]]

\* a thread enters one of the three functions
SyncCall(t) ==
  /\ thread[t].pc = "idle"
  /\ \E fn \in TransportFns :
       thread' = [thread EXCEPT ![t] = [NoThread EXCEPT !.fn = fn, !.pc = "test"]]
  /\ UNCHANGED <<isSynchronize, Others>>

\* as SyncTest, lowering the flag when it turns the call away
SyncTestLowering(t) ==
  /\ thread[t].pc = "test"
  /\ thread' = [thread EXCEPT ![t] =
                  IF isSynchronize = TRUE
                  THEN [@ EXCEPT !.pc = "returned", !.ret = FALSE]
                  ELSE [@ EXCEPT !.pc = "set"]]
  /\ isSynchronize' = FALSE
  /\ UNCHANGED Others

\* if(_isSynchronize == true) return false;
SyncTest(t) ==
  /\ thread[t].pc = "test"
  /\ thread' = [thread EXCEPT ![t] =
                  IF isSynchronize = TRUE
                  THEN [@ EXCEPT !.pc = "returned", !.ret = FALSE]
                  ELSE [@ EXCEPT !.pc = "set"]]
  /\ UNCHANGED <<isSynchronize, Others>>

\* _isSynchronize = true;
SyncSet(t) ==
  /\ thread[t].pc = "set"
  /\ isSynchronize' = TRUE
  /\ thread' = [thread EXCEPT ![t].pc = "write"]
  /\ UNCHANGED Others

\* as SyncWrite, every function going on to read an answer
SyncWriteThenRead(t) ==
  /\ thread[t].pc = "write"
  /\ thread' = [thread EXCEPT ![t] =
                  [@ EXCEPT !.io = @ + 1,
                            !.pc = IF thread[t].fn = "synchronizeVariableRead"
                                   THEN "read1" ELSE "read"]]
  /\ port' = [port EXCEPT !.sendBuff = SyncRequest(t), !.pending = <<>>]
  /\ UNCHANGED <<isSynchronize, pc, call, mem, nWrites, last, seen>>

\* this->__synchronizeWrite(txBuf, txLen): the request is copied to
\* sendBuff and written, the bytes waiting in the port are dropped
SyncWrite(t) ==
  /\ thread[t].pc = "write"
  /\ thread' = [thread EXCEPT ![t] =
                  [@ EXCEPT !.io = @ + 1,
                            !.pc = IF thread[t].fn = "synchronize" THEN "read"
                                   ELSE IF thread[t].fn = "synchronizeVariableRead"
                                   THEN "read1"
                                   ELSE "clear"]]
  /\ port' = [port EXCEPT !.sendBuff = SyncRequest(t), !.pending = <<>>]
  /\ UNCHANGED <<isSynchronize, pc, call, mem, nWrites, last, seen>>

\* synchronize: receiveBuff[0..rxLen-1] = 0xFF;
\* rxSize = pmxSerial->readBytes(receiveBuff, rxLen);
\* memcpy(rxBuf, receiveBuff, rxLen);
SyncRead(t) ==
  /\ thread[t].pc = "read"
  /\ \E full \in BOOLEAN :
       LET buf == SyncStored(port.receiveBuff, t, SyncFrameLen, 0,
                             IF full THEN SyncFrameLen ELSE 0)
       IN /\ port' = [port EXCEPT !.receiveBuff = buf]
          /\ thread' = [thread EXCEPT ![t] =
                          [@ EXCEPT !.io = @ + 1, !.got = full, !.pc = "clear",
                                    !.rxBuf = Take(buf, SyncFrameLen)]]
  /\ UNCHANGED <<isSynchronize, pc, call, mem, nWrites, last, seen>>

\* as SyncRead1, returning at once when the first six bytes did not come
SyncRead1NoClear(t) ==
  /\ thread[t].pc = "read1"
  /\ \E full \in BOOLEAN :
       thread' = [thread EXCEPT ![t] =
                    [@ EXCEPT !.io = @ + 1, !.got = full, !.ret = full,
                              !.pc = IF full THEN "read2" ELSE "returned"]]
  /\ UNCHANGED <<isSynchronize, Others>>

\* synchronizeVariableRead: receiveBuff[0..255] = 0xFF, the read of the
\* first six bytes, and *rxLen = 0 when they did not come
SyncRead1(t) ==
  /\ thread[t].pc = "read1"
  /\ \E full \in BOOLEAN :
       /\ port' = [port EXCEPT !.receiveBuff =
                     SyncStored(port.receiveBuff, t, 256, 0,
                                IF full THEN MinLenReceive - 2 ELSE 0)]
       /\ thread' = [thread EXCEPT ![t] =
                       [@ EXCEPT !.io = @ + 1, !.got = full,
                                 !.rxLen = IF full THEN @ ELSE 0,
                                 !.pc = IF full THEN "read2" ELSE "clear"]]
  /\ UNCHANGED <<isSynchronize, pc, call, mem, nWrites, last, seen>>

\* synchronizeVariableRead: the read of the rest of the frame; then
\* *rxLen = minRxSize when it did not come, or *rxLen = allRxSize and
\* memcpy(rxBuf, receiveBuff, allRxSize)
SyncRead2(t) ==
  /\ thread[t].pc = "read2"
  /\ \E full \in BOOLEAN :
       LET buf == SyncStored(port.receiveBuff, t, 0, MinLenReceive - 2,
                             IF full THEN SyncFrameLen - (MinLenReceive - 2) ELSE 0)
       IN /\ port' = [port EXCEPT !.receiveBuff = buf]
          /\ thread' = [thread EXCEPT ![t] =
                          [@ EXCEPT !.io = @ + 1, !.got = full, !.pc = "clear",
                                    !.rxLen = IF full THEN SyncFrameLen
                                              ELSE MinLenReceive - 2,
                                    !.rxBuf = IF full THEN Take(buf, SyncFrameLen)
                                              ELSE @]]
  /\ UNCHANGED <<isSynchronize, pc, call, mem, nWrites, last, seen>>

\* _isSynchronize = false; and the return that follows it
SyncClear(t) ==
  /\ thread[t].pc = "clear"
  /\ isSynchronize' = FALSE
  /\ thread' = [thread EXCEPT ![t] =
                  [@ EXCEPT !.pc = "returned",
                            !.ret = (thread[t].fn = "synchronizeNoRead"
                                     \/ thread[t].got)]]
  /\ UNCHANGED Others

\* the caller goes on
SyncReturn(t) ==
  /\ thread[t].pc = "returned"
  /\ thread' = [thread EXCEPT ![t] = NoThread]
  /\ UNCHANGED <<isSynchronize, Others>>

NextSync ==
  \/ \E t \in Threads : SyncCall(t)
  \/ \E t \in Threads : SyncTest(t)
  \/ \E t \in Threads : SyncSet(t)
  \/ \E t \in Threads : SyncWrite(t)
  \/ \E t \in Threads : SyncRead(t)
  \/ \E t \in Threads : SyncRead1(t)
  \/ \E t \in Threads : SyncRead2(t)
  \/ \E t \in Threads : SyncClear(t)
  \/ \E t \in Threads : SyncReturn(t)

SpecSync == Init /\ [][NextSync]_vars

\* the statements of the transport a thread executes once it is inside:
\* each of them ends, readBytes at the latest when its timeout expires
SyncStep(t) ==
  \/ SyncTest(t)
  \/ SyncSet(t)
  \/ SyncWrite(t)
  \/ SyncRead(t)
  \/ SyncRead1(t)
  \/ SyncRead2(t)
  \/ SyncClear(t)

SpecSyncFair == SpecSync /\ \A t \in Threads : WF_vars(SyncStep(t))

(***************************************************************************)
(* Calls one after another on one transport object.  What outlives a call  *)
(* is receiveBuff and the bytes of a response the call did not read, which *)
(* the serial port keeps; the caller's buffers are new for every call.     *)
(***************************************************************************)
MaxSeen == 2

\* PmxHardSerial::__synchronizeWrite: after the request is written, the
\* bytes waiting in the serial port are read and dropped
synchronizeWrite(p) == [p EXCEPT !.pending = <<>>]

\* PmxHardSerial::synchronize on the object p while the device answers
\* with wire: the object afterwards, and the bytes readBytes returned
synchronizeOn(p, wire, rxLen) ==
  LET q      == synchronizeWrite(p)
      avail  == q.pending \o wire
      rxSize == Min(Len(avail), rxLen)
  IN [port |-> [receiveBuff |-> [i \in 1..256 |->
                                   IF i <= rxSize THEN avail[i]
                                   ELSE IF i <= rxLen THEN 255
                                   ELSE q.receiveBuff[i]],
                pending |-> SubSeq(avail, rxSize + 1, Len(avail)),
                sendBuff |-> q.sendBuff],
      read |-> Take(avail, rxSize)]

\* PmxHardSerial::synchronizeVariableRead on the object p
synchronizeVariableReadOn(p, wire) ==
  LET q         == synchronizeWrite(p)
      avail     == q.pending \o wire
      minRxSize == MinLenReceive - 2
      first     == Min(Len(avail), minRxSize)
  IN
  IF first # minRxSize
  THEN [port |-> [receiveBuff |-> [i \in 1..256 |->
                                     IF i <= first THEN avail[i] ELSE 255],
                  pending |-> <<>>, sendBuff |-> q.sendBuff],
        read |-> Take(avail, first)]
  ELSE
    LET allRxSize == At(avail, PtrLength)
        second    == (allRxSize - minRxSize) % 256
        sBuffSize == Min(Len(avail) - minRxSize, second)
        got       == minRxSize + sBuffSize
    IN [port |-> [receiveBuff |-> [i \in 1..256 |->
                                     IF i <= got THEN avail[i] ELSE 255],
                  pending |-> SubSeq(avail, got + 1, Len(avail)),
                  sendBuff |-> q.sendBuff],
        read |-> Take(avail, got)]

\* what a device may answer: a right frame, a damaged checksum, a frame
\* one unit shorter or longer with or without a byte after it, a frame
\* cut short, silence
SeqFaults(dlens) ==
  {NoFault, [NoFault EXCEPT !.crc = FALSE]} \cup LengthFaults(dlens) \cup CutFaults

\* what is kept of an exchange: the call, the bytes the device sent
\* during it, what the call returned
Exchange(c, wire) ==
  [op |-> c.op, id |-> c.id, addr |-> c.addr, size |-> c.size, mode |-> c.mode,
   response |-> wire, ret |-> c.ret, out |-> c.out, tswOut |-> c.tswOut]

SeqMemREADCall ==
  /\ pc = "idle"
  /\ Cardinality(seen) < MaxSeen
  /\ \E f \in SeqFaults({-1, 1}) :
       LET wire == Wire(1, CmdMemREAD, 0, Pattern(2, 0), f)
           t    == synchronizeOn(port, wire, MinLenReceive + 2)
       IN \E v \in FixedVerdicts(t.read, MinLenReceive + 2) :
            /\ call' = MemREAD(1, 0, 2, Fill(2, 0), t.read, v)
            /\ port' = t.port
            /\ seen' = seen \cup {Exchange(call', wire)}
  /\ pc' = "done"
  /\ UNCHANGED <<mem, nWrites, last, isSynchronize, thread>>

SeqMotorREADCall ==
  /\ pc = "idle"
  /\ Cardinality(seen) < MaxSeen
  /\ \E f \in SeqFaults({-2, 2}) :
       LET wire == Wire(1, CmdMotorREAD, 0, <<DeviceSw>> \o Pattern(2, 0), f)
           t    == synchronizeVariableReadOn(port, wire)
       IN \E v \in VariableVerdicts(t.read, 11) :
            /\ call' \in MotorREAD(1, OptPosition, ControlModePosition, TRUE,
                                   t.read, v)
            /\ port' = t.port
            /\ seen' = seen \cup {Exchange(call', wire)}
  /\ pc' = "done"
  /\ UNCHANGED <<mem, nWrites, last, isSynchronize, thread>>

NextSeq ==
  \/ SeqMemREADCall
  \/ SeqMotorREADCall
  \/ Return

SpecSeq == Init /\ [][NextSeq]_vars

(***************************************************************************)
(* Calls of the protocol layer while the transport does not take them:     *)
(* another user of the transport raises and lowers the busy flag between   *)
(* the calls; a call made while the flag is up is turned away, one made    *)
(* while it is down meets a device that does not answer.                   *)
(***************************************************************************)
\* what the call meets
BusyWire == IF isSynchronize THEN Rejected ELSE <<>>

\* another user of the transport enters it or leaves it
OtherUser ==
  /\ pc = "idle"
  /\ isSynchronize' = ~isSynchronize
  /\ UNCHANGED <<pc, call, mem, nWrites, last, thread, port, seen>>

BusyMemREADCall ==
  /\ pc = "idle"
  /\ Cardinality(seen) < MaxSeen
  /\ \E n \in {1, 4}, b \in PriorFills :
       call' = MemREAD(1, 0, n, Fill(n, b), BusyWire, TRUE)
  /\ seen' = seen \cup {Exchange(call', BusyWire)}
  /\ pc' = "done"
  /\ UNCHANGED <<mem, nWrites, last, isSynchronize, thread, port>>

BusyMemREADToUint32Call ==
  /\ pc = "idle"
  /\ Cardinality(seen) < MaxSeen
  /\ call' = MemREADToUint32(1, 0, Fill(4, 0), BusyWire, TRUE)
  /\ seen' = seen \cup {Exchange(call', BusyWire)}
  /\ pc' = "done"
  /\ UNCHANGED <<mem, nWrites, last, isSynchronize, thread, port>>

BusyMotorREADCall ==
  /\ pc = "idle"
  /\ Cardinality(seen) < MaxSeen
  /\ \E m \in Modes :
       call' \in MotorREAD(1, m, ControlModePosition, TRUE, BusyWire, TRUE)
  /\ seen' = seen \cup {Exchange(call', BusyWire)}
  /\ pc' = "done"
  /\ UNCHANGED <<mem, nWrites, last, isSynchronize, thread, port>>

BusyMotorWRITECall ==
  /\ pc = "idle"
  /\ Cardinality(seen) < MaxSeen
  /\ \E m \in Modes :
       call' \in MotorWRITETarget(1, <<300>>, 1, m, ControlModePosition,
                                  BusyWire, TRUE)
  /\ seen' = seen \cup {Exchange(call', BusyWire)}
  /\ pc' = "done"
  /\ UNCHANGED <<mem, nWrites, last, isSynchronize, thread, port>>

BusySAVECall ==
  /\ pc = "idle"
  /\ Cardinality(seen) < MaxSeen
  /\ call' = SAVE(1, BusyWire, TRUE)
  /\ seen' = seen \cup {Exchange(call', BusyWire)}
  /\ pc' = "done"
  /\ UNCHANGED <<mem, nWrites, last, isSynchronize, thread, port>>

NextBusy ==
  \/ OtherUser
  \/ BusyMemREADCall
  \/ BusyMemREADToUint32Call
  \/ BusyMotorREADCall
  \/ BusyMotorWRITECall
  \/ BusySAVECall
  \/ Return

SpecBusy == Init /\ [][NextBusy]_vars

(***************************************************************************)
(* PmxBase::__byteCounter and PmxBase::__convReceiveMotorData on their     *)
(* own: every receive mode, control modes with and without the position    *)
(* bit, payloads that reach both ends of the 16-bit ranges.                *)
(***************************************************************************)
ControlModes == {1, 2, 5, 8}

\* 18 bytes: enough for eight fields and one field too many
DecodePayloads ==
  {Pattern(18, seed) : seed \in Seeds}
  \cup {Fill(18, 255),
        [i \in 1..18 |-> IF i % 2 = 0 THEN 128 ELSE 0],
        [i \in 1..18 |-> IF i % 2 = 0 THEN 127 ELSE 255]}

InitDecode ==
  /\ pc = "idle"
  /\ \E m \in 0..255, c \in ControlModes, p \in DecodePayloads, extra \in {0, 2} :
       call = [NoCall EXCEPT !.op = "input", !.mode = m, !.ctrl = c, !.data = p,
                             !.size = byteCounter(m) + extra]
  /\ mem = [t \in {} |-> 0]
  /\ nWrites = 0
  /\ last = NoWrite
  /\ isSynchronize = FALSE
  /\ thread = [t \in Threads |-> NoThread]
  /\ port = NoPort
  /\ seen = {}

byteCounterCall ==
  /\ pc = "idle"
  /\ call' = [call EXCEPT !.op = "byteCounter", !.rxLen = byteCounter(call.mode)]
  /\ pc' = "done"
  /\ UNCHANGED <<mem, nWrites, last, isSynchronize, thread, port, seen>>

convReceiveMotorDataCall ==
  /\ pc = "idle"
  /\ LET conv == convReceiveMotorData(call.mode, Take(call.data, call.size),
                                      call.size, call.ctrl)
     IN call' = [call EXCEPT !.op = "convReceiveMotorData",
                             !.out = conv.motorData, !.decoded = conv.flag]
  /\ pc' = "done"
  /\ UNCHANGED <<mem, nWrites, last, isSynchronize, thread, port, seen>>

NextDecode ==
  \/ byteCounterCall
  \/ convReceiveMotorDataCall

SpecDecode == InitDecode /\ [][NextDecode]_vars

(***************************************************************************)
(* PmxBase::checkRecv on its own: a frame as a device encodes it, handed    *)
(* over as it is or with one of its bits flipped.  The buffer is as long   *)
(* as the frame.                                                           *)
(***************************************************************************)
\* a 4-byte payload whose first two bytes are the checksum the frame
\* would have without payload
EchoPayload(id, cmd, st) ==
  LET c == getCrc16(<<DefaultHeader, DefaultHeader, id, MinLenReceive, cmd % 128, st>>, 6)
  IN <<c % 256, c \div 256, 0, 0>>

\* the responses: to MemWRITE, without payload; to MemREAD, with 2 or 4
\* data bytes
FlipFrames ==
  {[cmd |-> CmdMemWRITE,
    frame |-> RespFrame(DefaultHeader, DefaultHeader, 1, CmdMemWRITE % 128, st, <<>>, TRUE)] :
      st \in StatusBytes}
  \cup
  {[cmd |-> CmdMemREAD,
    frame |-> RespFrame(DefaultHeader, DefaultHeader, 1, CmdMemREAD % 128, st,
                        Pattern(2, seed), TRUE)] :
      st \in StatusBytes, seed \in Seeds}
  \cup
  {[cmd |-> CmdMemREAD,
    frame |-> RespFrame(DefaultHeader, DefaultHeader, 1, CmdMemREAD % 128, st,
                        EchoPayload(1, CmdMemREAD, st), TRUE)] :
      st \in StatusBytes}

\* the frame with bit `bit` flipped, bits counted from bit 0 of byte 0;
\* -1: the frame as it is
FlipBit(frame, bit) ==
  IF bit < 0 THEN frame
  ELSE [i \in 1..Len(frame) |->
          IF i = (bit \div 8) + 1 THEN Xor(frame[i], 2 ^ (bit % 8)) ELSE frame[i]]

InitFlip ==
  /\ pc = "idle"
  /\ \E x \in FlipFrames :
       \E bit \in -1..(8 * Len(x.frame) - 1) :
         call = [NoCall EXCEPT !.op = "input", !.opt = x.cmd, !.data = x.frame,
                               !.addr = bit]
  /\ mem = [t \in {} |-> 0]
  /\ nWrites = 0
  /\ last = NoWrite
  /\ isSynchronize = FALSE
  /\ thread = [t \in Threads |-> NoThread]
  /\ port = NoPort
  /\ seen = {}

checkRecvCall ==
  /\ pc = "idle"
  /\ LET rxBuff == FlipBit(call.data, call.addr)
     IN \E v \in CrcVerdicts(rxBuff) :
          call' = [call EXCEPT !.op = "checkRecv", !.rxbuf = rxBuff, !.crcOk = v,
                               !.chk = checkRecv(rxBuff, call.opt, DefaultHeader, v)]
  /\ pc' = "done"
  /\ UNCHANGED <<mem, nWrites, last, isSynchronize, thread, port, seen>>

SpecFlip == InitFlip /\ [][checkRecvCall]_vars

(***************************************************************************)
(* The target-value MotorWRITE on every target value of the 16-bit ranges: *)
(* one target, no return data, a device that answers.                      *)
(***************************************************************************)
\* the values a signed or an unsigned 16-bit target can take
TargetValues == -32768..65535

\* the answer of the device to a MotorWRITE that asks for no return data
EncodeWire == Wire(1, CmdMotorWRITE, 0, <<DeviceSw>>, NoFault)

InitEncode ==
  /\ pc = "idle"
  /\ \E v \in TargetValues : call = [NoCall EXCEPT !.op = "input", !.data = <<v>>]
  /\ mem = [t \in {} |-> 0]
  /\ nWrites = 0
  /\ last = NoWrite
  /\ isSynchronize = FALSE
  /\ thread = [t \in Threads |-> NoThread]
  /\ port = NoPort
  /\ seen = {}

MotorWRITEEncodeCall ==
  /\ pc = "idle"
  /\ call' \in MotorWRITETarget(1, call.data, 1, NoReturn, 1, EncodeWire, TRUE)
  /\ pc' = "done"
  /\ UNCHANGED <<mem, nWrites, last, isSynchronize, thread, port, seen>>

SpecEncode == InitEncode /\ [][MotorWRITEEncodeCall]_vars

(***************************************************************************)
(* PmxHardSerial::synchronizeVariableRead on every length byte a response  *)
(* can declare.  second is the length asked of the second readBytes,       *)
(* stored the number of bytes it put into receiveBuff from index 6 on.     *)
(***************************************************************************)
\* the bytes that follow the first six: none, as many as the second read
\* asks for, or as many as a byte can count
Arrivals(declared) == {0, (declared - 6) % 256, 255}

InitVar ==
  /\ pc = "idle"
  /\ \E declared \in 0..255 :
       \E k \in Arrivals(declared) :
         call = [NoCall EXCEPT !.op = "input", !.size = declared,
                               !.wire = <<254, 254, 1, declared, 36, 0>>
                                        \o Fill(k, 90)]
  /\ mem = [t \in {} |-> 0]
  /\ nWrites = 0
  /\ last = NoWrite
  /\ isSynchronize = FALSE
  /\ thread = [t \in Threads |-> NoThread]
  /\ port = NoPort
  /\ seen = {}

synchronizeVariableReadCall ==
  /\ pc = "idle"
  /\ LET r == synchronizeVariableRead(call.wire, 256)
     IN call' = [call EXCEPT !.op = "synchronizeVariableRead", !.nSync = 1,
                             !.kind = "variable", !.rxFlag = r.ok,
                             !.rxNow = r.rxLen, !.rxbuf = r.rxBuf,
                             !.out = [second |-> r.second, stored |-> r.stored]]
  /\ pc' = "done"
  /\ UNCHANGED <<mem, nWrites, last, isSynchronize, thread, port, seen>>

SpecVar == InitVar /\ [][synchronizeVariableReadCall]_vars

(***************************************************************************)
(* The typed register reads of 16 and 32 bits on the data a device         *)
(* returns: every pair of bytes, and the four-byte payloads made of the    *)
(* bytes at the ends and in the middle of the range.                       *)
(***************************************************************************)
EdgeBytes == {0, 1, 127, 128, 255}

TypedPayloads ==
  {<<b0, b1>> : b0 \in 0..255, b1 \in 0..255}
  \cup {<<b0, b1, b2, b3>> : b0 \in EdgeBytes, b1 \in EdgeBytes,
                             b2 \in EdgeBytes, b3 \in EdgeBytes}

InitTyped ==
  /\ pc = "idle"
  /\ \E p \in TypedPayloads : call = [NoCall EXCEPT !.op = "input", !.data = p]
  /\ mem = [t \in {} |-> 0]
  /\ nWrites = 0
  /\ last = NoWrite
  /\ isSynchronize = FALSE
  /\ thread = [t \in Threads |-> NoThread]
  /\ port = NoPort
  /\ seen = {}

\* the device at id 1 answers a read with the register's bytes
TypedInt16Call ==
  /\ pc = "idle" /\ Len(call.data) = 2
  /\ call' = MemREADToInt16(1, 0, Fill(2, 0),
                            Wire(1, CmdMemREAD, 0, call.data, NoFault), TRUE)
  /\ pc' = "done"
  /\ UNCHANGED <<mem, nWrites, last, isSynchronize, thread, port, seen>>

TypedUint16Call ==
  /\ pc = "idle" /\ Len(call.data) = 2
  /\ call' = MemREADToUint16(1, 0, Fill(2, 0),
                             Wire(1, CmdMemREAD, 0, call.data, NoFault), TRUE)
  /\ pc' = "done"
  /\ UNCHANGED <<mem, nWrites, last, isSynchronize, thread, port, seen>>

TypedInt32Call ==
  /\ pc = "idle" /\ Len(call.data) = 4
  /\ call' = MemREADToInt32(1, 0, Fill(4, 0),
                            Wire(1, CmdMemREAD, 0, call.data, NoFault), TRUE)
  /\ pc' = "done"
  /\ UNCHANGED <<mem, nWrites, last, isSynchronize, thread, port, seen>>

TypedUint32Call ==
  /\ pc = "idle" /\ Len(call.data) = 4
  /\ call' = MemREADToUint32(1, 0, Fill(4, 0),
                             Wire(1, CmdMemREAD, 0, call.data, NoFault), TRUE)
  /\ pc' = "done"
  /\ UNCHANGED <<mem, nWrites, last, isSynchronize, thread, port, seen>>

NextTyped ==
  \/ TypedInt16Call
  \/ TypedUint16Call
  \/ TypedInt32Call
  \/ TypedUint32Call

SpecTyped == InitTyped /\ [][NextTyped]_vars

(***************************************************************************)
(* Properties.                                                             *)
(***************************************************************************)
\* the command byte each operation sends
SentCmd(op) ==
  CASE op = "MemWRITE" -> 161
    [] op = "MotorREAD" -> 164
    [] op = "MotorWRITETorque" -> 165
    [] op = "MotorWRITETarget" -> 165
    [] op = "LOAD" -> 162
    [] op = "SAVE" -> 163
    [] op = "SystemREAD" -> 187
    [] op = "ReBoot" -> 189
    [] op = "FactoryReset" -> 190
    [] OTHER -> 160

\* checkRecv ran in the call
Validated == call.chk # -1

HeaderBad == At(call.rxbuf, 0) # 254 \/ At(call.rxbuf, 1) # 254

\* the command byte of the response is not the sent command with its top
\* bit cleared
CommandBad == At(call.rxbuf, 4) # SentCmd(call.op) - 128

\* C2: checkRecv checks the header, then the command, then the checksum:
\* a wrong header byte gives ReceiveError whatever the command and the
\* checksum; right headers and a wrong command give ReceiveError whatever
\* the checksum; CrcError only when headers and command match and the
\* checksum fails; OK only when all three checks pass.
C2_Precedence ==
  Validated =>
    /\ HeaderBad => call.chk = ReceiveError
    /\ (~ HeaderBad /\ CommandBad) => call.chk = ReceiveError
    /\ call.chk = CrcError <=> (~ HeaderBad /\ ~ CommandBad /\ ~ call.crcOk)
    /\ call.chk = ComOK <=> (~ HeaderBad /\ ~ CommandBad /\ call.crcOk)

\* a frame wrong in header, command and checksum at once was judged
C2_Witness ==
  Validated /\ HeaderBad /\ CommandBad /\ ~ call.crcOk /\ call.chk = ReceiveError

\* C3 as stated: a response whose command byte equals the command that
\* was sent, or differs from it only in the top bit, passes the command
\* check.
C3_Original ==
  (Validated /\ ~ HeaderBad
     /\ (At(call.rxbuf, 4) = SentCmd(call.op)
         \/ At(call.rxbuf, 4) = SentCmd(call.op) - 128))
  => call.chk # ReceiveError

\* C3 amended: the received command byte is compared as it is with the
\* expected command whose top bit is masked off: with right headers the
\* command check passes exactly when the response carries the sent command
\* with its top bit cleared; a response repeating the sent byte (top bit
\* set) is refused with ReceiveError.
C3_MaskExpected ==
  (Validated /\ ~ HeaderBad) =>
    /\ call.chk # ReceiveError <=> At(call.rxbuf, 4) = SentCmd(call.op) - 128
    /\ At(call.rxbuf, 4) = SentCmd(call.op) => call.chk = ReceiveError

\* a memory-read response carrying 0x20 passed, checksum included
C3_Witness ==
  /\ call.op = "MemREAD" /\ Validated /\ ~ HeaderBad
  /\ At(call.rxbuf, 4) = 32 /\ call.chk = ComOK

\* C4: MemREAD with size 0 or size >= 244 returns FormatError and calls
\* no transport; with a size in 1..243 it makes exactly one fixed-size
\* round trip, sending 11 bytes and expecting 8 + size.
C4_MemREADSize ==
  call.op = "MemREAD" =>
    /\ (call.size = 0 \/ call.size >= 244)
         => (call.ret = FormatError /\ call.nSync = 0)
    /\ (call.size >= 1 /\ call.size <= 243)
         => /\ call.nSync = 1 /\ call.kind = "fixed"
            /\ call.txLen = 11 /\ Len(call.tx) = 11
            /\ call.rxLen = 8 + call.size

\* the largest read went to the transport
C4_Witness ==
  /\ call.op = "MemREAD" /\ call.size = 243
  /\ call.nSync = 1 /\ call.rxLen = 251

\* C5: MemWRITE with a data length of 0 or >= 245 returns FormatError and
\* calls no transport; with a length in 1..244 it makes one fixed-size
\* round trip expecting 8 bytes.
C5_MemWRITESize ==
  call.op = "MemWRITE" =>
    /\ (call.size = 0 \/ call.size >= 245)
         => (call.ret = FormatError /\ call.nSync = 0)
    /\ (call.size >= 1 /\ call.size <= 244)
         => (call.nSync = 1 /\ call.kind = "fixed" /\ call.rxLen = 8)

\* the largest write went to the transport
C5_Witness ==
  /\ call.op = "MemWRITE" /\ call.size = 244
  /\ call.nSync = 1 /\ call.rxLen = 8 /\ Len(call.tx) = 254

\* C6: the torque-switch MotorWRITE returns FormatError without a
\* transport call for every switch value other than 1, 2, 4, 8, and calls
\* the transport for each of these four.
C6_TorqueSwitch ==
  call.op = "MotorWRITETorque" =>
    /\ call.tsw \notin {1, 2, 4, 8}
         => (call.ret = FormatError /\ call.nSync = 0)
    /\ call.tsw \in {1, 2, 4, 8} => call.nSync = 1

\* Hold was sent
C6_Witness ==
  call.op = "MotorWRITETorque" /\ call.tsw = 8 /\ call.nSync = 1

TypedOps ==
  {"MemREADToByte", "MemREADToInt16", "MemREADToUint16",
   "MemREADToInt32", "MemREADToUint32"}

\* the error value of each width
TypedSentinel(op) ==
  CASE op = "MemREADToByte" -> 255
    [] op = "MemREADToInt16" -> 32767
    [] op = "MemREADToUint16" -> 32767
    [] op = "MemREADToInt32" -> 2147483647
    [] op = "MemREADToUint32" -> U32(32767, 65535)

\* C8: when the transport times out, each typed read returns TimeOut and
\* leaves its output at the error value of its width: 0xFF, 0x7FFF,
\* 0x7FFFFFFF.
C8_TypedTimeout ==
  (call.op \in TypedOps /\ call.nSync = 1 /\ ~ call.rxFlag) =>
    (call.ret = TimeOut /\ call.out = TypedSentinel(call.op))

\* C9: whenever MemREAD returns a status with a non-zero high byte, every
\* byte of its output buffer is 0xFF.
C9_ErrorFillsOutput ==
  (call.op = "MemREAD" /\ call.ret >= 256) =>
    \A i \in 1..Len(call.out) : call.out[i] = 255

\* C10: when MotorREAD receives a frame that passes validation and whose
\* size is not 9 + FieldCount(mask), it returns the device status with
\* MotorREADConvertError, decodes nothing and leaves all 8 slots at the
\* error value.
C10_SizeMismatch ==
  (call.op = "MotorREAD" /\ call.chk = ComOK
     /\ call.rxNow # 9 + byteCounter(call.mode)) =>
    /\ call.ret = At(call.rxbuf, 5) + 64000
    /\ ~ call.decoded
    /\ call.out = SentinelSample

\* the thread has written its request to the serial port and has not yet
\* lowered the busy flag: its request is in flight
InFlight(t) == thread[t].pc \in {"read", "read1", "read2", "clear"}

\* C1: for any interleaving of two threads calling synchronize,
\* synchronizeVariableRead or synchronizeNoRead on one transport instance,
\* at most one request is in flight at a time: the call that comes second
\* returns false before it writes to the serial port or reads from it.
C1_Exclusive ==
  \A a, b \in Threads : (InFlight(a) /\ InFlight(b)) => a = b

\* C7: against the loopback device, MemWRITE(id, addr, data) followed by
\* MemREAD(id, addr, len(data)) returns exactly the bytes written with
\* status OK, for data of length 1..243.
C7_RoundTrip ==
  (/\ call.op = "MemREAD" /\ last.valid
   /\ call.id = last.id /\ call.addr = last.addr
   /\ call.size = Len(last.data)
   /\ call.size >= 1 /\ call.size <= 243)
  => (call.ret = ComOK /\ call.out = last.data)

\* 243 bytes written to the highest address of device 255 were read back
\* into a buffer that held other bytes
C7_Witness ==
  /\ call.op = "MemREAD" /\ last.valid
  /\ call.id = 255 /\ last.id = 255 /\ call.addr = 65535 /\ last.addr = 65535
  /\ call.size = 243 /\ Len(last.data) = 243
  /\ call.nSync = 1 /\ call.out = last.data /\ call.out[1] # 0

\* bit k of an 8-bit mask is set
BitSet(mask, k) == (mask \div (2 ^ k)) % 2 = 1

\* the number of set bits of mask below bit k
PopBelow(mask, k) == Cardinality({j \in 0..(k - 1) : BitSet(mask, j)})

\* the 16-bit word at payload offset off, low byte first
Word(bytes, off) == bytes[off + 1] + 256 * bytes[off + 2]

\* the word read as a two's complement value
SignedWord(w) == IF w >= 32768 THEN w - 65536 ELSE w

\* __convReceiveMotorData ran and returned true
Decoded == call.op = "convReceiveMotorData" /\ call.decoded

\* C11: on a successful motion decode, for every mask the field of bit k
\* is read from payload offset 2 * popcount(mask & (2^k - 1)) and stored in
\* slot k, and every slot whose bit is not set holds the error value.
C11_FieldLayout ==
  Decoded =>
    \A k \in 0..7 :
      IF BitSet(call.mode, k)
      THEN LET w == Word(call.data, 2 * PopBelow(call.mode, k))
           IN call.out[k + 1] \in {w, SignedWord(w)}
      ELSE call.out[k + 1] = 2147483647

\* speed and voltage only: the four bytes were decoded as speed, voltage
C11_Witness ==
  /\ Decoded /\ call.mode = 130 /\ call.size = 4
  /\ call.out[2] = SignedWord(Word(call.data, 0))
  /\ call.out[8] = Word(call.data, 2)
  /\ call.out[2] # call.out[8]

\* C12: the position is decoded signed when controlMode has the position
\* bit and unsigned otherwise; the voltage always unsigned; speed,
\* current, torque, PWM, motor and CPU temperature always signed; every
\* decoded slot lies in [-32768, 65535].
C12_Signedness ==
  Decoded =>
    \A k \in 0..7 :
      BitSet(call.mode, k) =>
        LET w == Word(call.data, 2 * PopBelow(call.mode, k))
        IN /\ call.out[k + 1] =
                IF k = 0
                THEN IF call.ctrl % 2 = 1 THEN SignedWord(w) ELSE w
                ELSE IF k = 7 THEN w
                ELSE SignedWord(w)
           /\ call.out[k + 1] >= -32768 /\ call.out[k + 1] <= 65535

\* all fields of 0xFFFF: the position came out as -1 under position
\* control, the voltage as 65535
C12_Witness ==
  /\ Decoded /\ call.mode = 255 /\ call.ctrl = 1
  /\ call.out[1] = -1 /\ call.out[8] = 65535

\* C13: FieldCount(mask) is twice the number of set bits of mask, for
\* every 8-bit mask; it is 0 for 0, 8 for 0b10110001 and 16 for 0xFF.
C13_FieldCount ==
  call.op = "byteCounter" =>
    /\ call.rxLen = 2 * Cardinality({j \in 0..7 : BitSet(call.mode, j)})
    /\ call.mode = 0 => call.rxLen = 0
    /\ call.mode = 177 => call.rxLen = 8
    /\ call.mode = 255 => call.rxLen = 16

\* the mask 0b10110001 was counted
C13_Witness ==
  call.op = "byteCounter" /\ call.mode = 177 /\ call.rxLen = 8

\* the call made one variable-length round trip
VariableTrip == call.nSync = 1 /\ call.kind = "variable"

\* bytes the second read of a variable-length round trip asks for
Remainder == (At(call.wire, 3) - 6) % 256

\* C14: in the variable-length round trip, a first read of fewer than the
\* six bytes asked for gives size 0 and failure; a full first read and a
\* short second read give size 6 and failure; success only when both
\* reads are full, and then the size is the length the frame declares.
C14_VariableRead ==
  VariableTrip =>
    /\ Len(call.wire) < 6 => (call.rxNow = 0 /\ ~ call.rxFlag)
    /\ (Len(call.wire) >= 6 /\ Len(call.wire) - 6 < Remainder)
         => (call.rxNow = 6 /\ ~ call.rxFlag)
    /\ call.rxFlag => /\ Len(call.wire) >= 6
                      /\ Len(call.wire) - 6 >= Remainder
                      /\ call.rxNow = At(call.wire, 3)

\* the last byte of a frame never came
C14_Witness ==
  /\ VariableTrip /\ call.op = "MotorREAD"
  /\ Len(call.wire) >= 6 /\ Len(call.wire) = At(call.wire, 3) - 1
  /\ call.rxNow = 6 /\ ~ call.rxFlag

\* the call made one fixed-size round trip
FixedTrip == call.nSync = 1 /\ call.kind = "fixed"

\* C15: the fixed-size round trip on an initialised transport that is not
\* busy succeeds if and only if exactly rxLen bytes were read before the
\* timeout.
C15_FixedRead ==
  FixedTrip => (call.rxFlag <=> Len(call.wire) >= call.rxLen)

\* all bytes but the last one came
C15_Witness ==
  /\ FixedTrip /\ call.op = "MemREAD"
  /\ Len(call.wire) = call.rxLen - 1 /\ ~ call.rxFlag /\ call.ret = TimeOut

ProtocolOps ==
  {"MemREAD", "MemWRITE", "MotorREAD", "MotorWRITETorque", "MotorWRITETarget"}

MotionOps == {"MotorREAD", "MotorWRITETorque", "MotorWRITETarget"}

\* the status byte of the response
StatusByte == At(call.rxbuf, 5)

\* C16: for MemREAD, MemWRITE, MotorREAD and MotorWRITE, a transport-level
\* error that preempts the device response (FormatError, TimeOut,
\* ReceiveError on a header or command mismatch, CrcError) gives a code
\* whose low byte is 0 and whose high byte is exactly that class; a
\* validated exchange gives high byte 0 and the byte at index 5 of the
\* response as low byte.
C16_CompositeCode ==
  call.op \in ProtocolOps =>
    /\ call.nSync = 0 => call.ret = FormatError
    /\ (call.nSync = 1 /\ ~ call.rxFlag) => call.ret = TimeOut
    /\ (Validated /\ (HeaderBad \/ CommandBad)) => call.ret = ReceiveError
    /\ (Validated /\ ~ HeaderBad /\ ~ CommandBad /\ ~ call.crcOk)
         => call.ret = CrcError
    /\ (Validated /\ call.chk = ComOK)
         => (call.ret \div 256 = 0 /\ call.ret % 256 = StatusByte)

\* a motion exchange whose frame passed checkRecv with a size other than
\* the expected one, where a read-back was asked for
DecodeStageFailure ==
  /\ call.op \in MotionOps /\ call.chk = ComOK
  /\ call.rxNow # call.rxLen
  /\ (call.op = "MotorREAD" \/ call.mode # 0)

\* C17: when a motion exchange fails at the decode stage, the code keeps
\* the device status byte in its low byte and has the motion decode
\* failure class 0xFA in its high byte, for every status byte.
C17_DecodeFailureCode ==
  DecodeStageFailure =>
    (call.ret % 256 = StatusByte /\ call.ret \div 256 = 250)

TorqueNoReturn ==
  call.op = "MotorWRITETorque" /\ call.mode = 0 /\ call.nSync = 1

C20_TorqueSizeMismatch ==
  (/\ call.op = "MotorWRITETorque" /\ call.mode # 0
   /\ call.chk = ComOK /\ call.rxNow # call.rxLen)
  => call.ret = StatusByte + 64000

C22_DeclaredLength ==
  (/\ call.op \in {"MemREAD", "MemWRITE"} /\ call.rxFlag
   /\ At(call.rxbuf, 3) # call.rxLen)
  => call.chk # ComOK

\* C23: every request handed to the transport starts with 0xFE 0xFE, has
\* the device id at index 2 and at index 3 the byte count of the whole
\* frame, checksum included, which is the txLen given to the transport
\* and is at most 255.
C23_RequestFrame ==
  call.nSync >= 1 =>
    /\ At(call.tx, 0) = 254 /\ At(call.tx, 1) = 254
    /\ At(call.tx, 2) = call.id
    /\ At(call.tx, 3) = Len(call.tx)
    /\ call.txLen = Len(call.tx)
    /\ Len(call.tx) <= 255

\* the MemREAD asks for what the last MemWRITE wrote, where it wrote it
ReadsBack ==
  /\ call.op = "MemREAD" /\ last.valid
  /\ call.id = last.id /\ call.addr = last.addr
  /\ call.size = Len(last.data)

\* C24 as stated: every size n in 1..244 is accepted by MemWRITE and by
\* MemREAD, and the exchange gives the bytes back.
C24_Original ==
  /\ (call.op \in {"MemREAD", "MemWRITE"} /\ call.size \in 1..244)
       => call.ret # FormatError
  /\ (ReadsBack /\ call.size \in 1..244) => call.out = last.data

\* C24 amended: MemWRITE accepts every size in 1..244, MemREAD every size
\* in 1..243, and over these sizes the bytes written are the bytes read
\* back; MemREAD of 244 bytes is refused with FormatError before any
\* byte is sent, so 244 bytes can be written and cannot be read in one
\* exchange.
C24_ValidSizes ==
  /\ (call.op = "MemWRITE" /\ call.size \in 1..244)
       => (call.ret # FormatError /\ call.nSync = 1)
  /\ (call.op = "MemREAD" /\ call.size \in 1..243)
       => (call.ret # FormatError /\ call.nSync = 1)
  /\ (ReadsBack /\ call.size \in 1..243)
       => (call.out = last.data /\ At(call.tx, 8) = call.size)
  /\ (call.op = "MemREAD" /\ call.size = 244)
       => (call.ret = FormatError /\ call.nSync = 0)

\* 244 bytes were written and accepted, and the MemREAD of these 244
\* bytes was refused
C24_Witness ==
  /\ ReadsBack /\ call.size = 244 /\ last.ret = ComOK
  /\ call.ret = FormatError /\ call.nSync = 0

\* C25: MotorREAD sets the torque-switch output from the response only
\* when the frame carries at least one payload byte (received size >= 9);
\* after an 8-byte response the output keeps its initial Error value 0xFF
\* and is never a checksum byte.
C25_TorqueSwitchPresent ==
  (call.op = "MotorREAD" /\ call.tswGiven /\ ~ call.ub) =>
    /\ call.tswOut # 255 => (call.chk = ComOK /\ call.rxNow >= 9)
    /\ (call.chk = ComOK /\ call.rxNow = 8) => call.tswOut = 255

\* a transport-class failure of a motion exchange: no answer in time, or
\* a frame that checkRecv refused
MotionTransportFailure ==
  /\ call.op \in MotionOps /\ call.nSync = 1
  /\ (~ call.rxFlag \/ (Validated /\ call.chk # ComOK))

\* C26: on a timeout or a header, command or checksum failure, MotorREAD
\* and both forms of MotorWRITE return with all 8 slots of the sample at
\* 0x7FFFFFFF, and MotorREAD with its torque-switch output, when given,
\* at 0xFF.
C26_FailureSentinels ==
  MotionTransportFailure =>
    /\ call.out = SentinelSample
    /\ (call.op = "MotorREAD" /\ call.tswGiven) => call.tswOut = 255

\* C27: the result of a call depends only on its arguments and on the
\* bytes the device returns during the call: two exchanges of one run
\* that made the same call and got the same bytes, whatever calls came
\* before them, returned the same status and the same outputs.
C27_NoLeak ==
  \A a, b \in seen :
    (/\ a.op = b.op /\ a.id = b.id /\ a.addr = b.addr /\ a.size = b.size
     /\ a.mode = b.mode /\ a.response = b.response)
    => (a.ret = b.ret /\ a.out = b.out /\ a.tswOut = b.tswOut)

\* C28: flipping any single bit of a validly encoded frame, the bits of
\* the header and of the command byte apart (checkRecv looks at these
\* before the checksum), makes checkRecv return CrcError; no flipped
\* frame is accepted.
C28_ChecksumSensitive ==
  (call.op = "checkRecv" /\ call.addr >= 0) =>
    /\ call.chk # ComOK
    /\ (call.addr \div 8) \notin {0, 1, 4} => call.chk = CrcError

\* C29: for every target value v from -32768 to 65535 the target-value
\* MotorWRITE sends the two bytes of v mod 65536, low byte first; a
\* negative v and the non-negative value with the same 16-bit pattern are
\* sent as the same two bytes, whichever conversion produced them.
C29_TargetEncoding ==
  (call.op = "MotorWRITETarget" /\ call.size = 1 /\ call.data[1] \in TargetValues) =>
    LET v == call.data[1]
        w == SubSeq(call.tx, 7, 8)
    IN /\ w = <<(v % 65536) % 256, (v % 65536) \div 256>>
       /\ v < 0 => w = uint16ToBytes(ToUint16(ToShort(v + 65536)))
       /\ v >= 32768 => w = int16ToBytes(ToShort(v - 65536))

\* the target -32768 went out as 00 80 and was answered
C29_Witness ==
  /\ call.op = "MotorWRITETarget" /\ call.data = <<-32768>> /\ call.nSync = 1
  /\ SubSeq(call.tx, 7, 8) = <<0, 128>> /\ call.ret = 0

\* C30: when the exchange succeeds, a typed read returns the value of
\* the data bytes b0..b3 of the response at the width and signedness of
\* its name: MemREADToUint16 b0 + 256*b1, MemREADToInt16 that pair as a
\* two's-complement value, MemREADToUint32 all four bytes, MemREADToInt32
\* the four bytes as a two's-complement value; the high half of a 32-bit
\* value is never dropped.
C30_RequestedWidth ==
  (/\ call.op \in {"MemREADToInt16", "MemREADToUint16",
                    "MemREADToInt32", "MemREADToUint32"}
   /\ ErrorBits(call.ret) = 0) =>
    LET lo == At(call.rxbuf, 6) + 256 * At(call.rxbuf, 7)
        hi == At(call.rxbuf, 8) + 256 * At(call.rxbuf, 9)
    IN /\ call.op = "MemREADToUint16" => call.out = lo
       /\ call.op = "MemREADToInt16" =>
            call.out = IF lo >= 32768 THEN lo - 65536 ELSE lo
       /\ call.op = "MemREADToUint32" => call.out = [hi |-> hi, lo |-> lo]
       /\ call.op = "MemREADToInt32" =>
            call.out = (IF hi >= 32768 THEN hi - 65536 ELSE hi) * 65536 + lo

\* the register bytes 01 00 00 80 were read as the unsigned 0x80000001
C30_Witness ==
  /\ call.op = "MemREADToUint32" /\ call.ret = 0
  /\ SubSeq(call.rxbuf, 7, 10) = <<1, 0, 0, 128>>
  /\ call.out = [hi |-> 32768, lo |-> 1]

\* C31: the target-value MotorWRITE hands a frame to the transport only
\* when its target count is 1, 2 or 3; with any other count no frame is
\* sent.
C31_CountValidated ==
  (call.op = "MotorWRITETarget" /\ call.size \notin 1..3) =>
    call.nSync = 0 /\ call.tx = <<>>

\* C32: setId with a new id above 239, setBaudrate with a value above 7,
\* setParity with a value above 2 and setResponseTime with a value below
\* 1 return FormatError without any exchange: neither the SystemREAD
\* that fetches the serial number nor the SystemWRITE request is sent.
C32_SetterFormat ==
  (\/ call.op = "setId" /\ call.data[1] > 239
   \/ call.op = "setBaudrate" /\ call.data[1] > 7
   \/ call.op = "setParity" /\ call.data[1] > 2
   \/ call.op = "setResponseTime" /\ call.data[1] < 1) =>
    /\ call.ret = FormatError
    /\ call.nSync = 0 /\ call.tx = <<>> /\ call.first = <<>>

\* setId was asked for the id 240 and refused it
C32_Witness ==
  /\ call.op = "setId" /\ call.data = <<240>>
  /\ call.ret = FormatError /\ call.nSync = 0

\* the calls that go through SystemWRITE without a serial number
AutoSerialOps ==
  {"SystemWRITEAuto", "setId", "setBaudrate", "setParity", "setResponseTime"}

\* C38: SystemWRITE without a serial number first makes a SystemREAD
\* exchange; when that fails with a communication error the error is
\* returned and no SystemWRITE request is sent; otherwise the SystemWRITE
\* request follows and carries the four serial-number bytes of the
\* SystemREAD response.
C38_SerialFirst ==
  (call.op \in AutoSerialOps /\ call.nSync >= 1) =>
    /\ call.first # <<>>
    /\ call.first.nSync = 1
    /\ call.first.tx = CommandTx(call.id, CmdSystemREAD, <<>>)
    /\ IF ErrorBits(call.first.ret) # 0
       THEN call.ret = call.first.ret /\ call.nSync = 1 /\ call.tx = <<>>
       ELSE /\ call.nSync = 2
            /\ Len(call.tx) = 16 /\ At(call.tx, 4) = CmdSystemWRITE
            /\ SubSeq(call.tx, 7, 10) = SubSeq(call.first.rxbuf, 7, 10)

\* a serial number was read and the SystemWRITE that carried it was
\* acknowledged
C38_Witness ==
  /\ call.op = "SystemWRITEAuto" /\ call.nSync = 2 /\ call.ret = 0
  /\ call.first # <<>> /\ call.first.ret = 0
  /\ SubSeq(call.tx, 7, 10) = SubSeq(call.first.rxbuf, 7, 10)

\* the thread is between the raising of the busy flag and its lowering
HoldsFlag(t) == thread[t].pc \in {"write", "read", "read1", "read2", "clear"}

\* C33: the busy flag is set only while an operation that raised it is
\* still inside the transport, so an operation that raised it has lowered
\* it when it returns, whichever way it returns; and, every serial read
\* returning, a raised flag is always lowered again.
C33_BusyCleared ==
  /\ [](isSynchronize => \E t \in Threads : HoldsFlag(t))
  /\ (isSynchronize ~> ~isSynchronize)

\* synchronizeVariableRead came back false after the first six bytes did
\* not arrive, the flag is down and nobody else is in the transport
C33_Witness ==
  /\ thread[1].fn = "synchronizeVariableRead" /\ thread[1].pc = "returned"
  /\ thread[1].io = 2 /\ thread[1].ret = FALSE
  /\ thread[2].pc = "idle" /\ isSynchronize = FALSE

\* C34: whatever length byte the response declares, the variable-length
\* round trip copies into the receive buffer of the caller no more bytes
\* than the buffer holds: 9 + the byte count of the receive mode in
\* MotorREAD, 26 in both forms of MotorWRITE.
C34_CopyWithinCapacity ==
  (call.kind = "variable" /\ call.rxFlag) =>
    call.rxNow <= (IF call.op = "MotorREAD"
                   THEN MinLenReceive + 1 + byteCounter(call.mode)
                   ELSE MotorWRITEBufSize)

\* C35: for every declared length 0..255 the length of the second read,
\* (declared length - 6) mod 256, is not larger than the declared length,
\* and the second read stores nothing past index 255 of the 256-byte
\* receiveBuff.
C35_SecondPhase ==
  call.op = "synchronizeVariableRead" =>
    /\ call.out.second <= call.size
    /\ 6 + call.out.stored - 1 <= 255

\* C36: a call that the transport turns away because the busy flag is
\* set changes nothing: the flag stays set, sendBuff and receiveBuff of
\* the operation in flight keep their bytes, nothing is written to the
\* serial port, to the receive buffer or to the length output of the
\* caller, and the call returns false.
C36_RejectedNoEffect ==
  [][\A t \in Threads :
       (thread[t].pc = "test" /\ thread'[t].pc = "returned") =>
         /\ isSynchronize /\ isSynchronize'
         /\ port' = port
         /\ thread'[t].io = 0 /\ thread'[t].ret = FALSE
         /\ thread'[t].rxBuf = <<>> /\ thread'[t].rxLen = -1]_vars

\* thread 2 was turned away while the request of thread 1 was in
\* sendBuff and the flag was set
C36_Witness ==
  /\ thread[2].pc = "returned" /\ thread[2].io = 0 /\ thread[2].ret = FALSE
  /\ thread[1].pc \in {"read", "read1", "read2", "clear"}
  /\ isSynchronize /\ port.sendBuff = SyncRequest(1)

\* C39: synchronizeNoRead, once past the test of the busy flag, writes
\* the request and makes no other serial-port operation, writes nothing
\* to a receive buffer or a length, and returns true; when it has returned
\* and nobody else is inside the transport the flag is down, so the next
\* call is accepted.
C39_SendOnly ==
  \A t \in Threads :
    (/\ thread[t].fn = "synchronizeNoRead" /\ thread[t].pc = "returned"
     /\ thread[t].io > 0) =>
      /\ thread[t].io = 1 /\ thread[t].ret = TRUE
      /\ thread[t].rxBuf = <<>> /\ thread[t].rxLen = -1
      /\ (\A u \in Threads \ {t} : thread[u].pc = "idle") => ~isSynchronize

\* thread 1 sent its request with synchronizeNoRead and is back; its
\* request is in sendBuff and the flag is down
C39_Witness ==
  /\ thread[1].fn = "synchronizeNoRead" /\ thread[1].pc = "returned"
  /\ thread[1].io = 1 /\ thread[1].ret = TRUE
  /\ port.sendBuff = SyncRequest(1)
  /\ thread[2].pc = "idle" /\ ~isSynchronize

====
